---- MODULE Spec2Model ----
(***************************************************************************)
(* Model of textract_hocr/converter.py: the conversion of a Textract       *)
(* result (a flat list of PAGE, LINE, WORD, TABLE and CELL blocks) into    *)
(* hOCR markup.  A conversion call is modelled as a state machine:         *)
(* validation, the table-ownership pass, the pass over the blocks that     *)
(* fills result_data, and the rendering of one page container per page.    *)
(*                                                                         *)
(* Numbers.  Normalized coordinates are multiples of 1/Grid, held as the   *)
(* integer numerator.  Confidence is held in tenths of a percent.  A PDF   *)
(* media box is held in half points.  int() is truncation toward zero.     *)
(* The markup is held as the tree the tag builder is driven to emit: a     *)
(* sequence of ocr_page elements, each with its sequence of ocr_block and  *)
(* ocr_table elements, each with its ocr_line elements and their           *)
(* ocrx_word elements.                                                     *)
(***************************************************************************)
EXTENDS Integers, Sequences, FiniteSets, TLC

\* ------------------------------------------------------------------------
\* Bounds of the model
\* ------------------------------------------------------------------------
MaxPages == 2
MaxTop == 2
MaxHeight == 2

\* One normalized unit (1.0) is Grid coordinate steps: every generated box
\* lies inside the page.
Grid == MaxTop + MaxHeight

\* ------------------------------------------------------------------------
\* Program constants
\* ------------------------------------------------------------------------
TEXTRACT_DEFAULT_WIDTH == 1000
TEXTRACT_DEFAULT_HEIGHT == 1000

\* Python's None for an omitted integer or dictionary argument.
None == -1

\* x.get("Confidence", 100.0), in tenths of a percent.
DefaultConfidence == 100 * 10

\* ------------------------------------------------------------------------
\* Generic helpers
\* ------------------------------------------------------------------------
\* int(q) for the rational q = a / b with b > 0: truncation toward zero.
IntDiv(a, b) == IF a >= 0 THEN a \div b ELSE 0 - ((0 - a) \div b)

Min2(a, b) == IF a <= b THEN a ELSE b
Max2(a, b) == IF a >= b THEN a ELSE b

RECURSIVE Flatten(_)
Flatten(ss) == IF ss = <<>> THEN <<>> ELSE Head(ss) \o Flatten(Tail(ss))

SeqRange(s) == {s[k] : k \in DOMAIN s}

\* sorted(keys) for a set of integers
RECURSIVE SortedSeq(_)
SortedSeq(S) ==
  IF S = {} THEN <<>>
  ELSE LET m == CHOOSE x \in S : \A y \in S : x <= y
       IN <<m>> \o SortedSeq(S \ {m})

\* ------------------------------------------------------------------------
\* Python dictionaries keep insertion order: a dictionary is a sequence of
\* [k, v] entries; assigning to a present key keeps the key's position.
\* ------------------------------------------------------------------------
DictHas(d, key) == \E k \in DOMAIN d : d[k].k = key
DictGet(d, key) == d[CHOOSE k \in DOMAIN d : d[k].k = key].v
\* DictPut placing a new key before the keys the dictionary holds
DictPut_Front(d, key, val) ==
  IF DictHas(d, key)
  THEN [k \in DOMAIN d |-> IF d[k].k = key THEN [k |-> key, v |-> val] ELSE d[k]]
  ELSE <<[k |-> key, v |-> val]>> \o d

DictPut(d, key, val) ==
  IF DictHas(d, key)
  THEN [k \in DOMAIN d |-> IF d[k].k = key THEN [k |-> key, v |-> val] ELSE d[k]]
  ELSE Append(d, [k |-> key, v |-> val])

\* ------------------------------------------------------------------------
\* Textract blocks.  has is the set of optional keys the block carries
\* (Confidence, Text, TextType); an absent Relationships key and an empty
\* list behave alike in every place the converter reads it.
\* ------------------------------------------------------------------------
Box(left, top, width, height) ==
  [Left |-> left, Top |-> top, Width |-> width, Height |-> height]

Rel(type, ids) == [Type |-> type, Ids |-> ids]
Child(ids) == <<Rel("CHILD", ids)>>

Block(type, id, page, has, conf, bbox, rels, row, col) ==
  [BlockType |-> type, Id |-> id, Page |-> page, has |-> has,
   Confidence |-> conf, Text |-> id, TextType |-> "PRINTED",
   BoundingBox |-> bbox, Relationships |-> rels,
   RowIndex |-> row, ColumnIndex |-> col, RowSpan |-> 1, ColumnSpan |-> 1]

PageB(id, page, rels) ==
  Block("PAGE", id, page, {}, 0, Box(0, 0, Grid, Grid), rels, 0, 0)
LineB(id, page, bbox, rels) ==
  Block("LINE", id, page, {"Confidence", "Text"}, 995, bbox, rels, 0, 0)
WordB(id, page, bbox) ==
  Block("WORD", id, page, {"Confidence", "Text", "TextType"}, 998, bbox, <<>>, 0, 0)
TableB(id, page, bbox, rels) ==
  Block("TABLE", id, page, {"Confidence"}, 985, bbox, rels, 0, 0)
CellB(id, page, bbox, rels, row, col) ==
  Block("CELL", id, page, {"Confidence"}, 990, bbox, rels, row, col)

Without(b, key) == [b EXCEPT !.has = @ \ {key}]

\* ------------------------------------------------------------------------
\* get_document_dimensions.  The source file is what the file system holds
\* at file_path: kind "none" is file_path None, "empty" the empty string,
\* "image" a file Image.open reads, "pdf" a file PdfReader reads (pages is
\* the media box of each page in half points, ok = FALSE when reading it
\* raises), "other" a file neither library reads.  pdf_reader says whether
\* the import of PdfReader succeeded.
\* ------------------------------------------------------------------------
Dims(w, h) == [width |-> w, height |-> h]
DefaultDims == Dims(TEXTRACT_DEFAULT_WIDTH, TEXTRACT_DEFAULT_HEIGHT)

NoOverride == [given |-> FALSE, value |-> Dims(0, 0)]
Override(w, h) == [given |-> TRUE, value |-> Dims(w, h)]

SourceFile(kind, w, h, pages) ==
  [kind |-> kind, width |-> w, height |-> h, pages |-> pages]
NoFile == SourceFile("none", 0, 0, <<>>)
MediaBox(w2, h2, ok) == [w2 |-> w2, h2 |-> h2, ok |-> ok]

\* pdf.pages[page_number - 1]: a negative index counts from the end, an
\* index outside the list raises IndexError (0 here).
PdfPageIndex_OffByOne(n, page_number) ==
  IF page_number + 1 <= n THEN page_number + 1 ELSE 0

PdfPageIndex(n, page_number) ==
  IF page_number >= 1 THEN (IF page_number <= n THEN page_number ELSE 0)
  ELSE (IF n + page_number >= 1 THEN n + page_number ELSE 0)

PdfDimensions(file_path, page_number) ==
  LET n == Len(file_path.pages)
      k == PdfPageIndex(n, page_number)
  IN IF file_path.kind = "pdf" /\ n >= page_number /\ k # 0 /\ file_path.pages[k].ok
     THEN [found |-> TRUE,
           value |-> Dims(IntDiv(file_path.pages[k].w2, 2),
                          IntDiv(file_path.pages[k].h2, 2))]
     ELSE [found |-> FALSE, value |-> DefaultDims]

get_document_dimensions(file_path, page_number, dimensions, pdf_reader) ==
  IF dimensions.given THEN dimensions.value
  ELSE IF file_path.kind \in {"none", "empty"} THEN DefaultDims
  ELSE IF file_path.kind = "image" THEN Dims(file_path.width, file_path.height)
  ELSE IF pdf_reader /\ PdfDimensions(file_path, page_number).found
       THEN PdfDimensions(file_path, page_number).value
  ELSE DefaultDims

\* ------------------------------------------------------------------------
\* Lookups over the flat block list: the converter scans the list and
\* stops at the first match (0: no match).
\* ------------------------------------------------------------------------
\* FindById using the loop variable after a scan that found no match: the
\* last block of the list
FindById_Leak(blocks, id) ==
  IF \E k \in DOMAIN blocks : blocks[k].Id = id
  THEN CHOOSE k \in DOMAIN blocks :
         /\ blocks[k].Id = id
         /\ \A j \in 1..(k - 1) : blocks[j].Id # id
  ELSE Len(blocks)

FindById(blocks, id) ==
  IF \E k \in DOMAIN blocks : blocks[k].Id = id
  THEN CHOOSE k \in DOMAIN blocks :
         /\ blocks[k].Id = id
         /\ \A j \in 1..(k - 1) : blocks[j].Id # id
  ELSE 0

FindCell(blocks, id) ==
  IF \E k \in DOMAIN blocks : blocks[k].Id = id /\ blocks[k].BlockType = "CELL"
  THEN CHOOSE k \in DOMAIN blocks :
         /\ blocks[k].Id = id /\ blocks[k].BlockType = "CELL"
         /\ \A j \in 1..(k - 1) : ~(blocks[j].Id = id /\ blocks[j].BlockType = "CELL")
  ELSE 0

\* The ids of the relationships of kind CHILD, in order.
ChildIds(block) ==
  Flatten([k \in DOMAIN block.Relationships |->
             IF block.Relationships[k].Type = "CHILD"
             THEN block.Relationships[k].Ids ELSE <<>>])

\* ------------------------------------------------------------------------
\* First pass: the ids of the LINE and WORD blocks owned by table cells.
\* ------------------------------------------------------------------------
\* The children of a table's cells that resolve to a block of the type.
CellChildrenOfType(blocks, table, type) ==
  {id \in UNION {SeqRange(ChildIds(blocks[FindCell(blocks, c)])) :
                   c \in {x \in SeqRange(ChildIds(table)) : FindCell(blocks, x) # 0}} :
     FindById(blocks, id) # 0 /\ blocks[FindById(blocks, id)].BlockType = type}

\* "Find all LINE blocks that contain any of the table words"
LinesWithTableWords(blocks, table_word_ids) ==
  {blocks[k].Id : k \in {j \in DOMAIN blocks :
     /\ blocks[j].BlockType = "LINE"
     /\ SeqRange(ChildIds(blocks[j])) \cap table_word_ids # {}}}

TableIdsOf(blocks, tables) ==
  LET words == UNION {CellChildrenOfType(blocks, t, "WORD") : t \in tables}
      lines == UNION {CellChildrenOfType(blocks, t, "LINE") : t \in tables}
  IN [table_word_ids |-> words,
      table_line_ids |-> lines \cup LinesWithTableWords(blocks, words)]

\* _convert_single_page and _convert_multiple_pages: every TABLE block.
CollectTableIds(blocks) ==
  TableIdsOf(blocks, {blocks[k] : k \in {j \in DOMAIN blocks :
                                          blocks[j].BlockType = "TABLE"}})

\* _extract_page_range: the TABLE blocks of the pages in the range.
CollectTableIdsInRange(blocks, first, last) ==
  TableIdsOf(blocks, {blocks[k] : k \in {j \in DOMAIN blocks :
     /\ blocks[j].BlockType = "TABLE"
     /\ blocks[j].Page >= first /\ blocks[j].Page <= last}})

\* ------------------------------------------------------------------------
\* Exceptions.  A KeyError carries the missing key.
\* ------------------------------------------------------------------------
NoError == "none"
KeyError(key) == "KeyError:" \o key

\* The first missing key among keys (in the order the code reads them).
RECURSIVE FirstMissing(_, _)
FirstMissing(block, keys) ==
  IF keys = <<>> THEN NoError
  ELSE IF Head(keys) \notin block.has THEN KeyError(Head(keys))
  ELSE FirstMissing(block, Tail(keys))

\* ------------------------------------------------------------------------
\* _add_line_block: the record of a LINE with the records of its words.
\* ------------------------------------------------------------------------
\* The {} placeholder a PAGE block leaves for a free line.
Placeholder ==
  [placeholder |-> TRUE, Confidence |-> 0, Text |-> "",
   BoundingBox |-> Box(0, 0, 0, 0), Words |-> <<>>]

WordRecord(word_block) ==
  [Id |-> word_block.Id, BlockType |-> word_block.BlockType,
   Confidence |-> word_block.Confidence, Text |-> word_block.Text,
   TextType |-> word_block.TextType, BoundingBox |-> word_block.BoundingBox]

\* The Words dictionary of a line: ids is Relationships[0]["Ids"]; an id
\* that matches no block is skipped; a matched block must carry Confidence,
\* Text and TextType.
RECURSIVE LineWords(_, _, _)
LineWords(ids, all_blocks, acc) ==
  IF acc.err # NoError \/ ids = <<>> THEN acc
  ELSE LET w == FindById(all_blocks, Head(ids))
       IN IF w = 0 THEN LineWords(Tail(ids), all_blocks, acc)
          ELSE LET e == FirstMissing(all_blocks[w], <<"Confidence", "Text", "TextType">>)
               IN IF e # NoError THEN [acc EXCEPT !.err = e]
                  ELSE LineWords(Tail(ids), all_blocks,
                         [acc EXCEPT !.words =
                            DictPut(@, Head(ids), WordRecord(all_blocks[w]))])

_add_line_block(page_data, line_block, all_blocks) ==
  LET e == FirstMissing(line_block, <<"Confidence", "Text">>)
      ids == IF line_block.Relationships # <<>>
             THEN line_block.Relationships[1].Ids ELSE <<>>
      ws == LineWords(ids, all_blocks, [err |-> NoError, words |-> <<>>])
      rec == [placeholder |-> FALSE, Confidence |-> line_block.Confidence,
              Text |-> line_block.Text, BoundingBox |-> line_block.BoundingBox,
              Words |-> ws.words]
  IN IF e # NoError THEN [err |-> e, data |-> page_data]
     ELSE [err |-> ws.err, data |-> DictPut(page_data, line_block.Id, rec)]

\* ------------------------------------------------------------------------
\* _add_table_block: the record of a TABLE with the records of its cells.
\* ------------------------------------------------------------------------
GetConfidence(block) ==
  IF "Confidence" \in block.has THEN block.Confidence ELSE DefaultConfidence

\* line_ids and words_data of a cell: children that resolve to a LINE are
\* listed by id, children that resolve to a WORD are stored whole.
RECURSIVE CellChildren(_, _, _)
CellChildren(ids, all_blocks, acc) ==
  IF acc.err # NoError \/ ids = <<>> THEN acc
  ELSE LET c == FindById(all_blocks, Head(ids))
       IN IF c = 0 THEN CellChildren(Tail(ids), all_blocks, acc)
          ELSE IF all_blocks[c].BlockType = "LINE"
          THEN CellChildren(Tail(ids), all_blocks,
                 [acc EXCEPT !.LineIds = Append(@, Head(ids))])
          ELSE IF all_blocks[c].BlockType = "WORD"
          THEN IF "Text" \notin all_blocks[c].has
               THEN [acc EXCEPT !.err = KeyError("Text")]
               ELSE CellChildren(Tail(ids), all_blocks,
                      [acc EXCEPT !.Words = Append(@,
                         [Id |-> Head(ids), Text |-> all_blocks[c].Text,
                          Confidence |-> GetConfidence(all_blocks[c]),
                          BoundingBox |-> all_blocks[c].BoundingBox])])
          ELSE CellChildren(Tail(ids), all_blocks, acc)

RECURSIVE TableCells(_, _, _)
TableCells(ids, all_blocks, acc) ==
  IF acc.err # NoError \/ ids = <<>> THEN acc
  ELSE LET c == FindCell(all_blocks, Head(ids))
       IN IF c = 0 THEN TableCells(Tail(ids), all_blocks, acc)
          ELSE LET ch == CellChildren(ChildIds(all_blocks[c]), all_blocks,
                           [err |-> NoError, LineIds |-> <<>>, Words |-> <<>>])
                   rec == [Confidence |-> GetConfidence(all_blocks[c]),
                           RowIndex |-> all_blocks[c].RowIndex,
                           ColumnIndex |-> all_blocks[c].ColumnIndex,
                           RowSpan |-> all_blocks[c].RowSpan,
                           ColumnSpan |-> all_blocks[c].ColumnSpan,
                           LineIds |-> ch.LineIds, Words |-> ch.Words,
                           BoundingBox |-> all_blocks[c].BoundingBox]
               IN IF ch.err # NoError THEN [acc EXCEPT !.err = ch.err]
                  ELSE TableCells(Tail(ids), all_blocks,
                         [acc EXCEPT !.cells = DictPut(@, Head(ids), rec)])

_add_table_block(page_data, table_block, all_blocks) ==
  LET cs == TableCells(ChildIds(table_block), all_blocks,
                       [err |-> NoError, cells |-> <<>>])
      rec == [Confidence |-> GetConfidence(table_block),
              BoundingBox |-> table_block.BoundingBox, Cells |-> cs.cells]
  IN [err |-> cs.err, data |-> DictPut(page_data, table_block.Id, rec)]

\* ------------------------------------------------------------------------
\* Rendering.  An element is [class, id, bbox, conf, text, children]; bbox
\* is the four pixel integers of the title attribute, conf the x_wconf
\* value (None where the title has none).
\* ------------------------------------------------------------------------
Element(class, id, bbox, conf, txt, children) ==
  [class |-> class, id |-> id, bbox |-> bbox, conf |-> conf, text |-> txt,
   children |-> children]

\* int(value * dimension) for the normalized value n / Grid
ToPixel(n, dimension) == IntDiv(n * dimension, Grid)

PixelBox(bbox, width, height) ==
  <<ToPixel(bbox.Left, width), ToPixel(bbox.Top, height),
    ToPixel(bbox.Left + bbox.Width, width),
    ToPixel(bbox.Top + bbox.Height, height)>>

\* int(confidence)
IntConf(conf) == IntDiv(conf, 10)

\* StableSort placing, among elements of equal key, the later one first
StableSort_TiesReversed(seq, lt) ==
  LET n == Len(seq)
      pos(i) == 1 + Cardinality({j \in 1..n :
                      \/ lt[j, i]
                      \/ (j > i /\ ~lt[i, j])})
  IN [p \in 1..n |-> seq[CHOOSE i \in 1..n : pos(i) = p]]

\* list.sort / sorted: a stable sort; lt[i, j] says that the key of seq[i]
\* is less than the key of seq[j]
StableSort(seq, lt) ==
  LET n == Len(seq)
      pos(i) == 1 + Cardinality({j \in 1..n :
                      \/ lt[j, i]
                      \/ (j < i /\ ~lt[i, j])})
  IN [p \in 1..n |-> seq[CHOOSE i \in 1..n : pos(i) = p]]

_add_word_content(word_id, word_data, width, height) ==
  Element("ocrx_word", word_id, PixelBox(word_data.BoundingBox, width, height),
          IntConf(word_data.Confidence), word_data.Text, <<>>)

\* A {} placeholder has no BoundingBox.
_add_line_content(line_id, line_data, width, height) ==
  IF line_data.placeholder
  THEN [err |-> KeyError("BoundingBox"), out |-> <<>>]
  ELSE [err |-> NoError,
        out |-> <<Element("ocr_line", line_id,
                   PixelBox(line_data.BoundingBox, width, height), None, "",
                   [k \in DOMAIN line_data.Words |->
                      _add_word_content(line_data.Words[k].k, line_data.Words[k].v,
                                        width, height)])>>]

\* _bboxes_intersect counting boxes that only touch as overlapping
_bboxes_intersect_Touching(bbox1, bbox2) ==
  bbox1.Top <= bbox2.Top + bbox2.Height /\ bbox1.Top + bbox1.Height >= bbox2.Top

\* _bboxes_intersect comparing the bottom of the first box with the bottom
\* of the second instead of its top
_bboxes_intersect_Bottoms(bbox1, bbox2) ==
  bbox1.Top < bbox2.Top + bbox2.Height
  /\ bbox1.Top + bbox1.Height > bbox2.Top + bbox2.Height

\* _bboxes_intersect comparing the boxes along the X axis
_bboxes_intersect_XAxis(bbox1, bbox2) ==
  bbox1.Left < bbox2.Left + bbox2.Width /\ bbox1.Left + bbox1.Width > bbox2.Left

\* Y-axis overlap of two bounding boxes
_bboxes_intersect(bbox1, bbox2) ==
  LET top1 == bbox1.Top
      bottom1 == bbox1.Top + bbox1.Height
      top2 == bbox2.Top
      bottom2 == bbox2.Top + bbox2.Height
  IN top1 < bottom2 /\ bottom1 > top2

RECURSIVE SeqMin(_)
SeqMin(s) == IF Len(s) = 1 THEN s[1] ELSE Min2(s[1], SeqMin(Tail(s)))
RECURSIVE SeqMax(_)
SeqMax(s) == IF Len(s) = 1 THEN s[1] ELSE Max2(s[1], SeqMax(Tail(s)))

\* _add_block_with_lines giving the block the box of its first line
_add_block_with_lines_FirstLine(block_counter, page_num, lines, width, height) ==
  Element("ocr_block",
          "block_" \o ToString(block_counter) \o "_" \o ToString(page_num),
          PixelBox(lines[1].v.BoundingBox, width, height),
          None, "",
          Flatten([k \in DOMAIN lines |->
             _add_line_content(lines[k].k, lines[k].v, width, height).out]))

\* lines is the list of (line_id, line_data) of the block; never empty, and
\* never holding a placeholder.
_add_block_with_lines(block_counter, page_num, lines, width, height) ==
  LET min_left == SeqMin([k \in DOMAIN lines |-> lines[k].v.BoundingBox.Left])
      min_top == SeqMin([k \in DOMAIN lines |-> lines[k].v.BoundingBox.Top])
      max_right == SeqMax([k \in DOMAIN lines |->
                     lines[k].v.BoundingBox.Left + lines[k].v.BoundingBox.Width])
      max_bottom == SeqMax([k \in DOMAIN lines |->
                     lines[k].v.BoundingBox.Top + lines[k].v.BoundingBox.Height])
  IN Element("ocr_block",
             "block_" \o ToString(block_counter) \o "_" \o ToString(page_num),
             <<ToPixel(min_left, width), ToPixel(min_top, height),
               ToPixel(max_right, width), ToPixel(max_bottom, height)>>,
             None, "",
             Flatten([k \in DOMAIN lines |->
                _add_line_content(lines[k].k, lines[k].v, width, height).out]))

\* The elements of one cell: its LINE children found in all_lines, then a
\* synthetic line of its words when it has words and no line ids.
RECURSIVE CellLines(_, _, _, _, _)
CellLines(line_ids, all_lines, width, height, acc) ==
  IF acc.err # NoError \/ line_ids = <<>> THEN acc
  ELSE IF ~DictHas(all_lines, Head(line_ids))
       THEN CellLines(Tail(line_ids), all_lines, width, height, acc)
       ELSE LET r == _add_line_content(Head(line_ids),
                       DictGet(all_lines, Head(line_ids)), width, height)
            IN CellLines(Tail(line_ids), all_lines, width, height,
                 [err |-> r.err, out |-> acc.out \o r.out])

CellContent(cell_id, cell_data, all_lines, width, height) ==
  LET ls == CellLines(cell_data.LineIds, all_lines, width, height,
                      [err |-> NoError, out |-> <<>>])
      synthetic ==
        IF cell_data.Words # <<>> /\ cell_data.LineIds = <<>>
        THEN <<Element("ocr_line", cell_id \o "_line",
                 PixelBox(cell_data.BoundingBox, width, height), None, "",
                 [k \in DOMAIN cell_data.Words |->
                    Element("ocrx_word", cell_data.Words[k].Id,
                      PixelBox(cell_data.Words[k].BoundingBox, width, height),
                      IntConf(cell_data.Words[k].Confidence),
                      cell_data.Words[k].Text, <<>>)])>>
        ELSE <<>>
  IN [err |-> ls.err, out |-> ls.out \o synthetic]

\* CellLt ordering the cells by column, then row
CellLt_ColumnMajor(a, b) ==
  \/ a.v.ColumnIndex < b.v.ColumnIndex
  \/ (a.v.ColumnIndex = b.v.ColumnIndex /\ a.v.RowIndex < b.v.RowIndex)

\* key=lambda x: (x[1]["RowIndex"], x[1]["ColumnIndex"])
CellLt(a, b) ==
  \/ a.v.RowIndex < b.v.RowIndex
  \/ (a.v.RowIndex = b.v.RowIndex /\ a.v.ColumnIndex < b.v.ColumnIndex)

RECURSIVE CellsContent(_, _, _, _, _)
CellsContent(cells, all_lines, width, height, acc) ==
  IF acc.err # NoError \/ cells = <<>> THEN acc
  ELSE LET r == CellContent(Head(cells).k, Head(cells).v, all_lines, width, height)
       IN CellsContent(Tail(cells), all_lines, width, height,
            [err |-> r.err, out |-> acc.out \o r.out])

_add_table_content(table_id, table_data, width, height, all_lines) ==
  LET cells == table_data.Cells
      sorted_cells == StableSort(cells,
        [i \in DOMAIN cells, j \in DOMAIN cells |-> CellLt(cells[i], cells[j])])
      r == CellsContent(sorted_cells, all_lines, width, height,
                        [err |-> NoError, out |-> <<>>])
  IN [err |-> r.err,
      out |-> Element("ocr_table", table_id,
                PixelBox(table_data.BoundingBox, width, height),
                IntConf(table_data.Confidence), "", r.out)]

\* ------------------------------------------------------------------------
\* _add_page_content: the ocr_page element of one page.
\* ------------------------------------------------------------------------
\* The line ids owned by the cells of the page's tables.
PageTableLineIds(page_data) ==
  UNION {UNION {SeqRange(page_data.tables[t].v.Cells[c].v.LineIds) :
                  c \in DOMAIN page_data.tables[t].v.Cells} :
           t \in DOMAIN page_data.tables}

\* content_items before the sort: the tables, then the lines that are
\* neither placeholders nor owned by a table of the page.
ContentItems(page_data) ==
  LET table_line_ids == PageTableLineIds(page_data)
      IsFree(e) == ~e.v.placeholder /\ e.k \notin table_line_ids
      free == SelectSeq(page_data.lines, IsFree)
  IN [k \in DOMAIN page_data.tables |->
        [top |-> page_data.tables[k].v.BoundingBox.Top, type |-> "table",
         k |-> page_data.tables[k].k, table |-> page_data.tables[k].v,
         line |-> Placeholder]]
     \o
     [k \in DOMAIN free |->
        [top |-> free[k].v.BoundingBox.Top, type |-> "line",
         k |-> free[k].k, table |-> [Confidence |-> 0, BoundingBox |-> Box(0, 0, 0, 0),
                                     Cells |-> <<>>],
         line |-> free[k].v]]

TopLt(a, b) == a.top < b.top

NoBBox == [set |-> FALSE, bbox |-> Box(0, 0, 0, 0)]

\* GroupContent with a table that leaves the pending block open: the table
\* is emitted, and the lines after it join the block of the lines before it
RECURSIVE GroupContent_TableKeepsBlock(_, _, _, _, _, _)
GroupContent_TableKeepsBlock(items, page_num, all_lines, width, height, st) ==
  IF st.err # NoError THEN st
  ELSE IF items = <<>>
  THEN IF st.current_block_lines # <<>>
       THEN [st EXCEPT !.out = Append(@,
               _add_block_with_lines(st.block_counter, page_num,
                                     st.current_block_lines, width, height)),
             !.current_block_lines = <<>>]
       ELSE st
  ELSE LET it == Head(items)
       IN IF it.type = "table"
          THEN LET t == _add_table_content(it.k, it.table, width, height, all_lines)
               IN GroupContent_TableKeepsBlock(Tail(items), page_num, all_lines,
                    width, height,
                    [st EXCEPT !.err = t.err, !.out = Append(@, t.out)])
          ELSE LET current_bbox == it.line.BoundingBox
                   flushed ==
                     IF /\ st.last_line_bbox.set
                        /\ ~_bboxes_intersect(st.last_line_bbox.bbox, current_bbox)
                        /\ st.current_block_lines # <<>>
                     THEN [st EXCEPT !.out = Append(@,
                             _add_block_with_lines(st.block_counter, page_num,
                                st.current_block_lines, width, height)),
                           !.current_block_lines = <<>>,
                           !.block_counter = @ + 1]
                     ELSE st
               IN GroupContent_TableKeepsBlock(Tail(items), page_num, all_lines,
                    width, height,
                    [flushed EXCEPT
                       !.current_block_lines = Append(@, [k |-> it.k, v |-> it.line]),
                       !.last_line_bbox = [set |-> TRUE, bbox |-> current_bbox]])

\* GroupContent with a table that takes a block number also when no block
\* is pending: the blocks after it skip a number
RECURSIVE GroupContent_TableCounts(_, _, _, _, _, _)
GroupContent_TableCounts(items, page_num, all_lines, width, height, st) ==
  IF st.err # NoError THEN st
  ELSE IF items = <<>>
  THEN IF st.current_block_lines # <<>>
       THEN [st EXCEPT !.out = Append(@,
               _add_block_with_lines(st.block_counter, page_num,
                                     st.current_block_lines, width, height)),
             !.current_block_lines = <<>>]
       ELSE st
  ELSE LET it == Head(items)
       IN IF it.type = "table"
          THEN LET flushed ==
                     IF st.current_block_lines # <<>>
                     THEN [st EXCEPT !.out = Append(@,
                             _add_block_with_lines(st.block_counter, page_num,
                                st.current_block_lines, width, height)),
                           !.current_block_lines = <<>>,
                           !.block_counter = @ + 1]
                     ELSE [st EXCEPT !.block_counter = @ + 1]
                   t == _add_table_content(it.k, it.table, width, height, all_lines)
               IN GroupContent_TableCounts(Tail(items), page_num, all_lines, width, height,
                    [flushed EXCEPT !.err = t.err, !.out = Append(@, t.out),
                                    !.last_line_bbox = NoBBox])
          ELSE LET current_bbox == it.line.BoundingBox
                   flushed ==
                     IF /\ st.last_line_bbox.set
                        /\ ~_bboxes_intersect(st.last_line_bbox.bbox, current_bbox)
                        /\ st.current_block_lines # <<>>
                     THEN [st EXCEPT !.out = Append(@,
                             _add_block_with_lines(st.block_counter, page_num,
                                st.current_block_lines, width, height)),
                           !.current_block_lines = <<>>,
                           !.block_counter = @ + 1]
                     ELSE st
               IN GroupContent_TableCounts(Tail(items), page_num, all_lines, width, height,
                    [flushed EXCEPT
                       !.current_block_lines = Append(@, [k |-> it.k, v |-> it.line]),
                       !.last_line_bbox = [set |-> TRUE, bbox |-> current_bbox]])

\* The loop over the sorted content items.  st holds the loop's variables:
\* the elements emitted so far, current_block_lines, block_counter and
\* last_line_bbox.
RECURSIVE GroupContent(_, _, _, _, _, _)
GroupContent(items, page_num, all_lines, width, height, st) ==
  IF st.err # NoError THEN st
  ELSE IF items = <<>>
  THEN IF st.current_block_lines # <<>>
       THEN [st EXCEPT !.out = Append(@,
               _add_block_with_lines(st.block_counter, page_num,
                                     st.current_block_lines, width, height)),
             !.current_block_lines = <<>>]
       ELSE st
  ELSE LET it == Head(items)
       IN IF it.type = "table"
          THEN LET flushed ==
                     IF st.current_block_lines # <<>>
                     THEN [st EXCEPT !.out = Append(@,
                             _add_block_with_lines(st.block_counter, page_num,
                                st.current_block_lines, width, height)),
                           !.current_block_lines = <<>>,
                           !.block_counter = @ + 1]
                     ELSE st
                   t == _add_table_content(it.k, it.table, width, height, all_lines)
               IN GroupContent(Tail(items), page_num, all_lines, width, height,
                    [flushed EXCEPT !.err = t.err, !.out = Append(@, t.out),
                                    !.last_line_bbox = NoBBox])
          ELSE LET current_bbox == it.line.BoundingBox
                   flushed ==
                     IF /\ st.last_line_bbox.set
                        /\ ~_bboxes_intersect(st.last_line_bbox.bbox, current_bbox)
                        /\ st.current_block_lines # <<>>
                     THEN [st EXCEPT !.out = Append(@,
                             _add_block_with_lines(st.block_counter, page_num,
                                st.current_block_lines, width, height)),
                           !.current_block_lines = <<>>,
                           !.block_counter = @ + 1]
                     ELSE st
               IN GroupContent(Tail(items), page_num, all_lines, width, height,
                    [flushed EXCEPT
                       !.current_block_lines = Append(@, [k |-> it.k, v |-> it.line]),
                       !.last_line_bbox = [set |-> TRUE, bbox |-> current_bbox]])

_add_page_content(page_num, page_data, dimensions) ==
  LET width == dimensions.width
      height == dimensions.height
      items == ContentItems(page_data)
      content_items == StableSort(items,
        [i \in DOMAIN items, j \in DOMAIN items |-> TopLt(items[i], items[j])])
      r == GroupContent(content_items, page_num, page_data.lines, width, height,
             [err |-> NoError, out |-> <<>>, current_block_lines |-> <<>>,
              block_counter |-> 1, last_line_bbox |-> NoBBox])
  IN [err |-> r.err,
      out |-> [class |-> "ocr_page", id |-> "page_" \o ToString(page_num),
               bbox |-> <<0, 0, width, height>>, ppageno |-> page_num - 1,
               children |-> r.out]]

\* ------------------------------------------------------------------------
\* _build_hocr_html: one ocr_page per key of result_data, keys ascending.
\* ------------------------------------------------------------------------
\* _build_hocr_html: the document built so far
VARIABLE body

\* A document object kept from the previous call
NewDoc_Stale == body

\* Doc().tagtext(): a new, empty document for every call
NewDoc == <<>>

RECURSIVE RenderPages(_, _, _, _)
RenderPages(page_nums, result_data, page_dimensions, acc) ==
  IF acc.err # NoError \/ page_nums = <<>> THEN acc
  ELSE LET r == _add_page_content(Head(page_nums), result_data[Head(page_nums)],
                                  page_dimensions[Head(page_nums)])
       IN RenderPages(Tail(page_nums), result_data, page_dimensions,
            [err |-> r.err, out |-> Append(acc.out, r.out)])

_build_hocr_html(result_data, page_dimensions) ==
  RenderPages(SortedSeq(DOMAIN result_data), result_data, page_dimensions,
              [err |-> NoError, out |-> NewDoc])

\* ------------------------------------------------------------------------
\* The pass over the blocks that fills result_data.  st is
\* [err, result_data, page_dimensions]; env is the call's arguments
\* [source_file, dimensions, pdf_reader, first, last].
\* ------------------------------------------------------------------------
NewPage == [lines |-> <<>>, tables |-> <<>>]
SetKey(f, key, val) == [q \in (DOMAIN f) \cup {key} |-> IF q = key THEN val ELSE f[q]]

\* result_data[page]["lines"][id] = {} for each child id that resolves to
\* a LINE that is not table-owned
RECURSIVE PutPlaceholders(_, _, _, _)
PutPlaceholders(lines, ids, blocks, table_line_ids) ==
  IF ids = <<>> THEN lines
  ELSE LET c == FindById(blocks, Head(ids))
       IN PutPlaceholders(
            IF c # 0 /\ blocks[c].BlockType = "LINE" /\ Head(ids) \notin table_line_ids
            THEN DictPut(lines, Head(ids), Placeholder) ELSE lines,
            Tail(ids), blocks, table_line_ids)

\* _add_line_block / _add_table_block on result_data[page_num]; the page
\* must be a key of result_data.
AddToPage(st, page_num, block, blocks) ==
  IF page_num \notin DOMAIN st.result_data
  THEN [st EXCEPT !.err = KeyError(ToString(page_num))]
  ELSE IF block.BlockType = "LINE"
  THEN LET r == _add_line_block(st.result_data[page_num].lines, block, blocks)
       IN [st EXCEPT !.err = r.err, !.result_data[page_num].lines = r.data]
  ELSE LET r == _add_table_block(st.result_data[page_num].tables, block, blocks)
       IN [st EXCEPT !.err = r.err, !.result_data[page_num].tables = r.data]

SinglePageBlock(st, block, blocks) ==
  IF block.BlockType \in {"LINE", "TABLE"} THEN AddToPage(st, 1, block, blocks)
  ELSE st

MultiplePagesBlock(st, block, blocks, table_line_ids, env) ==
  IF block.BlockType = "PAGE"
  THEN [st EXCEPT
          !.result_data = SetKey(@, block.Page,
             [lines |-> PutPlaceholders(<<>>, ChildIds(block), blocks, table_line_ids),
              tables |-> <<>>]),
          !.page_dimensions = SetKey(@, block.Page,
             get_document_dimensions(env.source_file, block.Page, env.dimensions,
                                     env.pdf_reader))]
  ELSE IF block.BlockType \in {"LINE", "TABLE"}
  THEN AddToPage(st, block.Page, block, blocks)
  ELSE st

PageRangeBlock(st, block, blocks, table_line_ids, env) ==
  IF block.Page < env.first \/ block.Page > env.last THEN st
  ELSE IF block.BlockType = "PAGE"
  THEN [st EXCEPT !.result_data[block.Page].lines =
          PutPlaceholders(@, ChildIds(block), blocks, table_line_ids)]
  ELSE IF block.BlockType \in {"LINE", "TABLE"}
  THEN AddToPage(st, block.Page, block, blocks)
  ELSE st

\* The state each path starts its pass over the blocks from.
SinglePageStart(env) ==
  [err |-> NoError,
   result_data |-> [q \in {1} |-> NewPage],
   page_dimensions |-> [q \in {1} |->
      get_document_dimensions(env.source_file, 1, env.dimensions, env.pdf_reader)]]

MultiplePagesStart ==
  [err |-> NoError, result_data |-> <<>>, page_dimensions |-> <<>>]

PageRangeStart(env) ==
  [err |-> NoError,
   result_data |-> [q \in env.first..env.last |-> NewPage],
   page_dimensions |-> [q \in env.first..env.last |->
      get_document_dimensions(env.source_file, q, env.dimensions, env.pdf_reader)]]

\* ------------------------------------------------------------------------
\* textract_to_hocr: the page range and its validation, and the path taken
\* ------------------------------------------------------------------------
FirstOf(first_page) == IF first_page # None THEN first_page ELSE 1
LastOf(last_page, total_pages) == IF last_page # None THEN last_page ELSE total_pages

\* ValidateRange without the check of first against last
ValidateRange_NoOrderCheck(first, last, total_pages) ==
  IF first < 1 \/ first > total_pages THEN "ValueError:first_page"
  ELSE IF last < 1 \/ last > total_pages THEN "ValueError:last_page"
  ELSE NoError

\* ValidateRange testing last_page before first_page
ValidateRange_LastFirst(first, last, total_pages) ==
  IF last < 1 \/ last > total_pages THEN "ValueError:last_page"
  ELSE IF first < 1 \/ first > total_pages THEN "ValueError:first_page"
  ELSE IF first > last THEN "ValueError:first_page,last_page"
  ELSE NoError

ValidateRange(first, last, total_pages) ==
  IF first < 1 \/ first > total_pages THEN "ValueError:first_page"
  ELSE IF last < 1 \/ last > total_pages THEN "ValueError:last_page"
  ELSE IF first > last THEN "ValueError:first_page,last_page"
  ELSE NoError

PathOf(first, last, total_pages) ==
  IF total_pages = 1 THEN "single"
  ELSE IF first = 1 /\ last = total_pages THEN "multi"
  ELSE "range"

\* ------------------------------------------------------------------------
\* The whole call as a function of its arguments
\* ------------------------------------------------------------------------
BlockStep(p, st, block, blocks, tids, env) ==
  IF p = "single" THEN SinglePageBlock(st, block, blocks)
  ELSE IF p = "multi"
  THEN MultiplePagesBlock(st, block, blocks, tids.table_line_ids, env)
  ELSE PageRangeBlock(st, block, blocks, tids.table_line_ids, env)

PathStart(p, env) ==
  IF p = "single" THEN SinglePageStart(env)
  ELSE IF p = "multi" THEN MultiplePagesStart
  ELSE PageRangeStart(env)

PathTableIds(p, blocks, env) ==
  IF p = "range" THEN CollectTableIdsInRange(blocks, env.first, env.last)
  ELSE CollectTableIds(blocks)

RECURSIVE PassBlocks(_, _, _, _, _, _)
PassBlocks(p, st, k, blocks, tids, env) ==
  IF st.err # NoError \/ k > Len(blocks) THEN st
  ELSE PassBlocks(p, BlockStep(p, st, blocks[k], blocks, tids, env),
                  k + 1, blocks, tids, env)

NoOutput == [returned |-> FALSE, pages |-> <<>>]
Returned(pages) == [returned |-> TRUE, pages |-> pages]

Convert(result, file, first_arg, last_arg, dims, reader) ==
  LET total_pages == result.Pages
      env == [source_file |-> file, dimensions |-> dims, pdf_reader |-> reader,
              first |-> FirstOf(first_arg),
              last |-> LastOf(last_arg, total_pages)]
      v == ValidateRange(env.first, env.last, total_pages)
      p == PathOf(env.first, env.last, total_pages)
      st == PassBlocks(p, PathStart(p, env), 1, result.Blocks,
                       PathTableIds(p, result.Blocks, env), env)
      r == _build_hocr_html(st.result_data, st.page_dimensions)
  IN IF v # NoError THEN [error |-> v, output |-> NoOutput]
     ELSE IF st.err # NoError THEN [error |-> st.err, output |-> NoOutput]
     ELSE IF r.err # NoError THEN [error |-> r.err, output |-> NoOutput]
     ELSE [error |-> NoError, output |-> Returned(r.out)]

\* ------------------------------------------------------------------------
\* State
\* ------------------------------------------------------------------------
\* The arguments of the call
VARIABLES textract_result, source_file, first_page, last_page, dimensions
\* Whether `from PyPDF2 import PdfReader` succeeded when the module loaded
VARIABLE pdf_reader
\* The position in the call, the path taken, and the path's local variables
VARIABLES pc, path, table_ids, result_data, page_dimensions, idx
\* _build_hocr_html: the pages still to add to body
VARIABLE todo
\* What the call returned or raised
VARIABLES output, error
\* The number of the call, and what the previous call returned or raised
VARIABLES call, prev

args == <<textract_result, source_file, first_page, last_page, dimensions, pdf_reader>>
locals == <<path, table_ids, result_data, page_dimensions, idx, body, todo>>
vars == <<args, pc, locals, output, error, call, prev>>


\* ------------------------------------------------------------------------
\* The documents and arguments the calls are made with
\* ------------------------------------------------------------------------
Id(prefix, n) == prefix \o ToString(n)
Opt(cond, seq) == IF cond THEN seq ELSE <<>>

\* Layout documents: one page with three free lines l1, l2, l3 listed in
\* that order, each with any box of the grid, and optionally a table.
LineBoxes ==
  {Box(h - 1, t, t + 1, h) : t \in 0..MaxTop, h \in 1..MaxHeight}
TableTops == {None} \cup (0..MaxTop)

LayoutDoc(b1, b2, b3, tt) ==
  [Pages |-> 1,
   Blocks |->
     <<PageB("p1", 1, Child(<<"l1", "l2", "l3">> \o Opt(tt # None, <<"t1">>))),
       LineB("l1", 1, b1, Child(<<"w1">>)),
       WordB("w1", 1, b1),
       LineB("l2", 1, b2, <<>>),
       LineB("l3", 1, b3, <<>>)>>
     \o Opt(tt # None,
          <<TableB("t1", 1, Box(0, tt, Grid, 1), Child(<<"c1">>)),
            CellB("c1", 1, Box(0, tt, Grid, 1), Child(<<"w9">>), 1, 1),
            WordB("w9", 1, Box(0, tt, 1, 1))>>)]

LayoutDocs ==
  {LayoutDoc(b1, b2, b3, tt) : b1 \in LineBoxes, b2 \in LineBoxes,
                               b3 \in LineBoxes, tt \in TableTops}

\* Structure documents: np pages.  kinds[p] says what the document holds
\* for page p: "full" is a PAGE block, the line l<p> and its word w<p>;
\* "nopage" the line and the word without a PAGE block; "pageonly" a PAGE
\* block without content; "empty" no block at all.  lw is the child list
\* of l1; cc says whether page 1 has the table t1 and what its cell list
\* and the child list of its cell c1 are; pages_last puts each PAGE block
\* after the content of its page.  "zz" is the id of no block.
PageKinds == {"full", "nopage", "pageonly", "empty"}
LineWordChoices == {<<"w1">>, <<"w1", "zz">>, <<"w2", "w1">>, <<>>}

TableChoice(present, cells, children) ==
  [present |-> present, cells |-> cells, children |-> children]
NoTable == TableChoice(FALSE, <<>>, <<>>)
TableChoices ==
  {NoTable,
   TableChoice(TRUE, <<"c1">>, <<"w9">>),
   TableChoice(TRUE, <<"c1">>, <<"w1">>),
   TableChoice(TRUE, <<"c1">>, <<"l1">>),
   TableChoice(TRUE, <<"c1">>, <<"l1", "w9">>),
   TableChoice(TRUE, <<"zz", "c1">>, <<"zz", "w9">>),
   TableChoice(TRUE, <<"c1">>, <<>>)}

StructPage(p, kind, lw, cc, pages_last) ==
  LET has_content == kind \in {"full", "nopage"}
      page == Opt(kind \in {"full", "pageonly"},
                <<PageB(Id("p", p), p,
                    Child(Opt(has_content, <<Id("l", p)>>)
                          \o Opt(has_content /\ p = 1 /\ cc.present, <<"t1">>)
                          \o Opt(p = 1 /\ "zz" \in SeqRange(lw), <<"zz">>)))>>)
      content ==
        Opt(has_content,
          <<LineB(Id("l", p), p, Box(1, 0, 2, 1),
                  IF p = 1 THEN Child(lw) ELSE Child(<<Id("w", p)>>)),
            WordB(Id("w", p), p, Box(1, 0, 1, 1))>>
          \o Opt(p = 1 /\ cc.present,
               <<TableB("t1", 1, Box(0, 2, Grid, 2), Child(cc.cells)),
                 CellB("c1", 1, Box(0, 2, 2, 2), Child(cc.children), 1, 1),
                 WordB("w9", 1, Box(0, 2, 1, 1))>>))
  IN IF pages_last THEN content \o page ELSE page \o content

StructDoc(np, kinds, lw, cc, pages_last) ==
  [Pages |-> np,
   Blocks |-> Flatten([p \in 1..np |-> StructPage(p, kinds[p], lw, cc, pages_last)])]

AllFull(np) == [p \in 1..np |-> "full"]

\* Every page is full and the content of page 1 varies.
ContentDocs ==
  UNION {{StructDoc(np, AllFull(np), lw, cc, pl) :
            lw \in LineWordChoices, cc \in TableChoices, pl \in BOOLEAN} :
         np \in 1..MaxPages}

\* The pages vary in kind; page 1 has the line l1 with the word w1.
PageKindDocs ==
  UNION {{StructDoc(np, kinds, <<"w1">>, NoTable, pl) :
            kinds \in [1..np -> PageKinds], pl \in BOOLEAN} :
         np \in 1..MaxPages}

StructDocs == ContentDocs \cup PageKindDocs

\* Documents in which one block lacks one of its optional keys.
OptionalKeys ==
  {<<"l1", "Confidence">>, <<"l1", "Text">>,
   <<"w1", "Confidence">>, <<"w1", "Text">>, <<"w1", "TextType">>,
   <<"t1", "Confidence">>, <<"c1", "Confidence">>,
   <<"w9", "Confidence">>, <<"w9", "Text">>, <<"w9", "TextType">>}

MissingDoc(np, id, key) ==
  LET d == StructDoc(np, AllFull(np), <<"w1">>, TableChoice(TRUE, <<"c1">>, <<"w9">>), FALSE)
  IN [d EXCEPT !.Blocks = [k \in DOMAIN d.Blocks |->
        IF d.Blocks[k].Id = id THEN Without(d.Blocks[k], key) ELSE d.Blocks[k]]]

MissingDocs == {MissingDoc(np, m[1], m[2]) : np \in 1..MaxPages, m \in OptionalKeys}

\* Geometry documents: one page whose line l1, word w1, table t1, cell c1
\* and word w9 all have the box b; b may start left of or above the page
\* and may have no width or no height.
GeometryBoxes ==
  {Box(l, t, w, h) : l \in {0 - 1, 1}, t \in {0 - 1, 1}, w \in {0, 2}, h \in {0, 2}}

GeometryDoc(b) ==
  [Pages |-> 1,
   Blocks |->
     <<PageB("p1", 1, Child(<<"l1", "t1">>)),
       LineB("l1", 1, b, Child(<<"w1">>)),
       WordB("w1", 1, b),
       TableB("t1", 1, b, Child(<<"c1">>)),
       CellB("c1", 1, b, Child(<<"w9">>), 1, 1),
       WordB("w9", 1, b)>>]

GeometryDocs == {GeometryDoc(b) : b \in GeometryBoxes}

\* Table documents: page 1 holds nothing but tables.  t1 is a 2x2 table;
\* order is the order of its four cells in its CHILD relationship; with
\* kind "words" every cell owns a word directly, with "lines" it owns a
\* line that owns the word.  two adds the one-cell table t2 above t1.  The
\* cell blocks are listed in reverse reading order.  With np = 2 a second
\* page with the free line l2 follows.
CellNames == <<"11", "12", "21", "22">>
CellOrders == {f \in [1..4 -> 1..4] : \A i, j \in 1..4 : f[i] = f[j] => i = j}
CellKinds == {"words", "lines"}

TableCell(name, kind, row, col) ==
  <<CellB("c" \o name, 1, Box(2 * (col - 1), row, 2, 1),
          Child(<<(IF kind = "words" THEN "w" ELSE "l") \o name>>), row, col)>>
  \o Opt(kind = "lines",
       <<LineB("l" \o name, 1, Box(2 * (col - 1), row, 2, 1), Child(<<"w" \o name>>))>>)
  \o <<WordB("w" \o name, 1, Box(2 * (col - 1), row, 1, 1))>>

TableDoc(np, order, kind, two) ==
  [Pages |-> np,
   Blocks |->
     <<PageB("p1", 1, Child(<<"t1">> \o Opt(two, <<"t2">>)
                            \o Opt(kind = "lines", [k \in 1..4 |-> "l" \o CellNames[k]]))),
       TableB("t1", 1, Box(0, 1, Grid, 2),
              Child([k \in 1..4 |-> "c" \o CellNames[order[k]]]))>>
     \o TableCell("22", kind, 2, 2) \o TableCell("21", kind, 2, 1)
     \o TableCell("12", kind, 1, 2) \o TableCell("11", kind, 1, 1)
     \o Opt(two,
          <<TableB("t2", 1, Box(0, 0, Grid, 1), Child(<<"c9">>)),
            CellB("c9", 1, Box(0, 0, Grid, 1), Child(<<"w9">>), 1, 1),
            WordB("w9", 1, Box(0, 0, 1, 1))>>)
     \o Opt(np = 2, StructPage(2, "full", <<>>, NoTable, FALSE))]

TableDocs ==
  {TableDoc(np, order, kind, two) :
     np \in 1..2, order \in CellOrders, kind \in CellKinds, two \in BOOLEAN}

\* Word order documents: one page whose line l1 lists the words w1, w2 and
\* w3 in any order, or lists w1 twice; the blocks are listed w3, l1, w2, w1.
WordOrders ==
  {<<"w1", "w2", "w3">>, <<"w1", "w3", "w2">>, <<"w2", "w1", "w3">>,
   <<"w2", "w3", "w1">>, <<"w3", "w1", "w2">>, <<"w3", "w2", "w1">>,
   <<"w1", "w2", "w1">>}

WordOrderDoc(ids) ==
  [Pages |-> 1,
   Blocks |->
     <<PageB("p1", 1, Child(<<"l1">>)),
       WordB("w3", 1, Box(2, 0, 1, 1)),
       LineB("l1", 1, Box(0, 0, 3, 1), Child(ids)),
       WordB("w2", 1, Box(1, 0, 1, 1)),
       WordB("w1", 1, Box(0, 0, 1, 1))>>]

WordOrderDocs == {WordOrderDoc(ids) : ids \in WordOrders}

\* Relationship documents: page 1 has the line l1 (word w1) and the table
\* t1 (cell c1, word w9), and the blocks c2 and x1 that no CHILD
\* relationship names.  The block host carries, before or after its CHILD
\* relationship, a relationship of kind VALUE: on p1 it names l1, on l1 and
\* c1 the word x1, on t1 the cell c2.
RelHosts == {"p1", "l1", "t1", "c1"}

WithValue(host, id, rels, ids, value_first) ==
  IF host # id THEN rels
  ELSE IF value_first THEN <<Rel("VALUE", ids)>> \o rels
  ELSE rels \o <<Rel("VALUE", ids)>>

RelDoc(np, host, value_first, pages_last) ==
  LET rel(id, rels, ids) == WithValue(host, id, rels, ids, value_first)
      page == <<PageB("p1", 1, rel("p1", Child(<<"t1">>), <<"l1">>))>>
      content ==
        <<LineB("l1", 1, Box(1, 0, 2, 1), rel("l1", Child(<<"w1">>), <<"x1">>)),
          WordB("w1", 1, Box(1, 0, 1, 1)),
          TableB("t1", 1, Box(0, 2, Grid, 2), rel("t1", Child(<<"c1">>), <<"c2">>)),
          CellB("c1", 1, Box(0, 2, 2, 2), rel("c1", Child(<<"w9">>), <<"x1">>), 1, 1),
          WordB("w9", 1, Box(0, 2, 1, 1)),
          CellB("c2", 1, Box(2, 2, 2, 2), Child(<<"x1">>), 1, 2),
          WordB("x1", 1, Box(2, 2, 1, 1))>>
  IN [Pages |-> np,
      Blocks |-> (IF pages_last THEN content \o page ELSE page \o content)
                 \o Opt(np = 2, StructPage(2, "full", <<>>, NoTable, FALSE))]

RelDocs ==
  {RelDoc(np, host, vf, pl) :
     np \in 1..2, host \in RelHosts, vf \in BOOLEAN, pl \in BOOLEAN}

\* Tie documents: page 1 has the free lines l1, l2, l3 (in this order in
\* Blocks) with the tops tops[1..3] and height 1; the PAGE block lists
\* them in the order page_order.  tt is the top of the table t1 (None: no
\* table); two adds the table t2 with the same top after t1; tables_first
\* lists the TABLE blocks before the LINE blocks.  With np = 2 a second
\* page with the free line l2 of page 2 follows.
TieTops == [1..3 -> 0..1]
PageOrders == {<<"l1", "l2", "l3">>, <<"l3", "l1">>}
TieTables ==
  {[tt |-> None, two |-> FALSE, tables_first |-> FALSE]}
  \cup [tt : 0..1, two : BOOLEAN, tables_first : BOOLEAN]

TieDoc(np, tops, page_order, tb) ==
  LET lines == Flatten([k \in 1..3 |->
                 <<LineB("l" \o ToString(k), 1, Box(k, tops[k], 1, 1),
                         Child(<<"v" \o ToString(k)>>)),
                   WordB("v" \o ToString(k), 1, Box(k, tops[k], 1, 1))>>])
      tables ==
        Opt(tb.tt # None,
          <<TableB("t1", 1, Box(0, tb.tt, 1, 1), Child(<<"c1">>)),
            CellB("c1", 1, Box(0, tb.tt, 1, 1), Child(<<"w9">>), 1, 1),
            WordB("w9", 1, Box(0, tb.tt, 1, 1))>>)
        \o Opt(tb.tt # None /\ tb.two,
          <<TableB("t2", 1, Box(0, tb.tt, 1, 1), Child(<<"c2">>)),
            CellB("c2", 1, Box(0, tb.tt, 1, 1), Child(<<"w8">>), 1, 1),
            WordB("w8", 1, Box(0, tb.tt, 1, 1))>>)
  IN [Pages |-> np,
      Blocks |->
        <<PageB("p1", 1, Child(page_order \o Opt(tb.tt # None, <<"t1">>)
                               \o Opt(tb.tt # None /\ tb.two, <<"t2">>)))>>
        \o (IF tb.tables_first THEN tables \o lines ELSE lines \o tables)
        \o Opt(np = 2, <<PageB("p2", 2, Child(<<"m2">>)),
                         LineB("m2", 2, Box(1, 0, 2, 1), Child(<<"u2">>)),
                         WordB("u2", 2, Box(1, 0, 1, 1))>>)]

TieDocs ==
  {TieDoc(np, tops, po, tb) :
     np \in 1..2, tops \in TieTops, po \in PageOrders, tb \in TieTables}

\* Page sizes that are no multiple of the coordinate grid.
PixelDims == {NoOverride, Override(1001, 1003)}

\* The page range arguments: omitted, or any page number from 0 to one past
\* the last page.
PageArgs(np) == {None} \cup (0..(np + 1))

\* The source files and dimension overrides.
PdfFile(n, ok) ==
  SourceFile("pdf", 0, 0, [k \in 1..n |-> MediaBox(1225 + 2 * k, 1584, ok)])
SourceFiles ==
  {NoFile, SourceFile("empty", 0, 0, <<>>), SourceFile("image", 640, 480, <<>>),
   SourceFile("other", 0, 0, <<>>)}
  \cup {PdfFile(n, TRUE) : n \in 0..MaxPages} \cup {PdfFile(1, FALSE)}
Overrides == {NoOverride, Override(2550, 3300)}

Input(doc, file, first, last, dims, reader) ==
  [doc |-> doc, file |-> file, first |-> first, last |-> last, dims |-> dims,
   reader |-> reader]

Inputs ==
  {Input(d, NoFile, None, None, NoOverride, TRUE) : d \in LayoutDocs}
  \cup
  UNION {{Input(d, NoFile, f, l, NoOverride, TRUE) :
            f \in PageArgs(d.Pages), l \in PageArgs(d.Pages)} : d \in StructDocs}
  \cup
  {Input(d, NoFile, f, f, NoOverride, TRUE) : d \in MissingDocs, f \in {None, 1}}
  \cup
  {Input(StructDoc(np, AllFull(np), <<"w1">>, NoTable, FALSE), file, None, None, dims, reader) :
     np \in 1..MaxPages, file \in SourceFiles, dims \in Overrides, reader \in BOOLEAN}
  \cup
  {Input(d, NoFile, None, None, dims, TRUE) : d \in GeometryDocs, dims \in PixelDims}
  \cup
  {Input(d, NoFile, f, f, NoOverride, TRUE) :
     d \in TableDocs, f \in {None, 1}}
  \cup
  {Input(d, NoFile, None, None, NoOverride, TRUE) : d \in WordOrderDocs}
  \cup
  {Input(d, NoFile, f, f, NoOverride, TRUE) : d \in RelDocs, f \in {None, 1}}
  \cup
  {Input(d, NoFile, f, f, NoOverride, TRUE) : d \in TieDocs, f \in {None, 1}}

\* ------------------------------------------------------------------------
\* The state machine of a call
\* ------------------------------------------------------------------------
total_pages == textract_result.Pages
first == FirstOf(first_page)
last == LastOf(last_page, total_pages)
Env == [source_file |-> source_file, dimensions |-> dimensions,
        pdf_reader |-> pdf_reader, first |-> first, last |-> last]

Init ==
  /\ \E in \in Inputs :
       /\ textract_result = in.doc
       /\ source_file = in.file
       /\ first_page = in.first
       /\ last_page = in.last
       /\ dimensions = in.dims
       /\ pdf_reader = in.reader
  /\ pc = "start"
  /\ path = "none"
  /\ table_ids = [table_word_ids |-> {}, table_line_ids |-> {}]
  /\ result_data = <<>>
  /\ page_dimensions = <<>>
  /\ idx = 0
  /\ body = <<>>
  /\ todo = <<>>
  /\ output = NoOutput
  /\ error = NoError
  /\ call = 1
  /\ prev = [output |-> NoOutput, error |-> NoError]

\* The exception leaves textract_to_hocr: nothing is returned.
Raise(e) ==
  /\ pc' = "done"
  /\ error' = e
  /\ output' = NoOutput

\* textract_to_hocr, lines 118-130: the range is rejected
RaiseValueError ==
  /\ pc = "start"
  /\ ValidateRange(first, last, total_pages) # NoError
  /\ Raise(ValidateRange(first, last, total_pages))
  /\ UNCHANGED <<args, locals, call, prev>>

\* StartSinglePage taking the single-page path of a one-page document only
\* when first_page and last_page are omitted, and the range path otherwise
StartSinglePage_OrRange ==
  /\ pc = "start"
  /\ ValidateRange(first, last, total_pages) = NoError
  /\ total_pages = 1
  /\ IF first_page = None /\ last_page = None
     THEN /\ path' = "single"
          /\ result_data' = SinglePageStart(Env).result_data
          /\ page_dimensions' = SinglePageStart(Env).page_dimensions
          /\ table_ids' = CollectTableIds(textract_result.Blocks)
     ELSE /\ path' = "range"
          /\ result_data' = PageRangeStart(Env).result_data
          /\ page_dimensions' = PageRangeStart(Env).page_dimensions
          /\ table_ids' = CollectTableIdsInRange(textract_result.Blocks, first, last)
  /\ idx' = 1
  /\ pc' = "blocks"
  /\ UNCHANGED <<args, body, todo, output, error, call, prev>>

\* _convert_single_page up to its loop over the blocks: the locals are
\* created and the table-ownership pass is run.
StartSinglePage ==
  /\ pc = "start"
  /\ ValidateRange(first, last, total_pages) = NoError
  /\ total_pages = 1
  /\ path' = "single"
  /\ result_data' = SinglePageStart(Env).result_data
  /\ page_dimensions' = SinglePageStart(Env).page_dimensions
  /\ table_ids' = CollectTableIds(textract_result.Blocks)
  /\ idx' = 1
  /\ pc' = "blocks"
  /\ UNCHANGED <<args, body, todo, output, error, call, prev>>

\* _convert_multiple_pages up to its loop over the blocks
StartMultiplePages ==
  /\ pc = "start"
  /\ ValidateRange(first, last, total_pages) = NoError
  /\ total_pages # 1
  /\ first = 1 /\ last = total_pages
  /\ path' = "multi"
  /\ result_data' = MultiplePagesStart.result_data
  /\ page_dimensions' = MultiplePagesStart.page_dimensions
  /\ table_ids' = CollectTableIds(textract_result.Blocks)
  /\ idx' = 1
  /\ pc' = "blocks"
  /\ UNCHANGED <<args, body, todo, output, error, call, prev>>

\* _extract_page_range up to its second loop over the blocks
StartPageRange ==
  /\ pc = "start"
  /\ ValidateRange(first, last, total_pages) = NoError
  /\ total_pages # 1
  /\ ~(first = 1 /\ last = total_pages)
  /\ path' = "range"
  /\ result_data' = PageRangeStart(Env).result_data
  /\ page_dimensions' = PageRangeStart(Env).page_dimensions
  /\ table_ids' = CollectTableIdsInRange(textract_result.Blocks, first, last)
  /\ idx' = 1
  /\ pc' = "blocks"
  /\ UNCHANGED <<args, body, todo, output, error, call, prev>>

\* One iteration of the path's loop over result["Blocks"]
NextBlock ==
  /\ pc = "blocks"
  /\ idx <= Len(textract_result.Blocks)
  /\ LET st == BlockStep(path,
                 [err |-> NoError, result_data |-> result_data,
                  page_dimensions |-> page_dimensions],
                 textract_result.Blocks[idx], textract_result.Blocks, table_ids, Env)
     IN /\ result_data' = st.result_data
        /\ page_dimensions' = st.page_dimensions
        /\ IF st.err # NoError
           THEN Raise(st.err) /\ idx' = idx
           ELSE idx' = idx + 1 /\ UNCHANGED <<pc, output, error>>
  /\ UNCHANGED <<args, path, table_ids, body, todo, call, prev>>

\* _build_hocr_html up to the loop over the pages
BuildHocrHtml ==
  /\ pc = "blocks"
  /\ idx > Len(textract_result.Blocks)
  /\ body' = NewDoc
  /\ todo' = SortedSeq(DOMAIN result_data)
  /\ pc' = "render"
  /\ UNCHANGED <<args, path, table_ids, result_data, page_dimensions, idx,
                 output, error, call, prev>>

\* One iteration of the loop over the pages
AddPageContent ==
  /\ pc = "render"
  /\ todo # <<>>
  /\ LET r == _add_page_content(Head(todo), result_data[Head(todo)],
                                page_dimensions[Head(todo)])
     IN IF r.err # NoError
        THEN Raise(r.err) /\ UNCHANGED <<body, todo>>
        ELSE /\ body' = Append(body, r.out)
             /\ todo' = Tail(todo)
             /\ UNCHANGED <<pc, output, error>>
  /\ UNCHANGED <<args, path, table_ids, result_data, page_dimensions, idx, call, prev>>

\* The markup is returned
ReturnHocr ==
  /\ pc = "render"
  /\ todo = <<>>
  /\ output' = Returned(body)
  /\ pc' = "done"
  /\ UNCHANGED <<args, locals, error, call, prev>>

\* The caller converts the same document again with the same arguments
CallAgain ==
  /\ pc = "done"
  /\ call = 1
  /\ prev' = [output |-> output, error |-> error]
  /\ call' = 2
  /\ pc' = "start"
  /\ output' = NoOutput
  /\ error' = NoError
  /\ UNCHANGED <<args, locals>>

Next ==
  \/ RaiseValueError
  \/ StartSinglePage
  \/ StartMultiplePages
  \/ StartPageRange
  \/ NextBlock
  \/ BuildHocrHtml
  \/ AddPageContent
  \/ ReturnHocr
  \/ CallAgain

Spec == Init /\ [][Next]_vars


\* ------------------------------------------------------------------------
\* Reading the markup and the document
\* ------------------------------------------------------------------------
Blocks == textract_result.Blocks
Done == pc = "done"
Succeeded == pc = "done" /\ error = NoError

\* The ocr_block and ocr_table elements of a page, in emission order
Items(page) == page.children
IsBlock(e) == e.class = "ocr_block"
IsTable(e) == e.class = "ocr_table"

\* The ids of the ocr_line elements of an element, in order
LineIdsOf(e) == [k \in DOMAIN e.children |-> e.children[k].id]
\* The ids of the ocrx_word elements below an ocr_block or ocr_table
WordIdsOf(e) ==
  UNION {{e.children[k].children[j].id : j \in DOMAIN e.children[k].children} :
           k \in DOMAIN e.children}

AllItems(pages) ==
  UNION {{Items(pages[k])[j] : j \in DOMAIN Items(pages[k])} : k \in DOMAIN pages}

\* The block with an id (ids are unique in the documents above)
BlockOf(id) == Blocks[FindById(Blocks, id)]

\* Vertical overlap of two boxes as intervals [Top, Top + Height): they
\* share a point of the grid.
VOverlap(b1, b2) ==
  \E y \in 0..(2 * Grid) :
     /\ b1.Top <= y /\ y < b1.Top + b1.Height
     /\ b2.Top <= y /\ y < b2.Top + b2.Height

RangeInvalid ==
  \/ first \notin 1..total_pages
  \/ last \notin 1..total_pages
  \/ first > last

\* ------------------------------------------------------------------------
\* C1: for a valid range the markup has exactly last-first+1 ocr_page
\* containers, with ids page_first .. page_last in ascending order, also
\* for pages that no block references.
\* ------------------------------------------------------------------------
C1_PageContainers ==
  Succeeded =>
    [k \in DOMAIN output.pages |-> output.pages[k].id]
      = [k \in 1..(last - first + 1) |-> Id("page_", first + k - 1)]

\* ------------------------------------------------------------------------
\* C2: a call whose range is invalid (first or last outside
\* [1, totalPages], or first > last) raises the validation error, returns
\* no markup, and assembles and renders nothing before raising.
\* ------------------------------------------------------------------------
C2_InvalidRangeRejected ==
  RangeInvalid =>
    /\ pc \in {"start", "done"}
    /\ result_data = <<>> /\ page_dimensions = <<>> /\ body = <<>>
    /\ ~output.returned
    /\ Done => error \in {"ValueError:first_page", "ValueError:last_page",
                          "ValueError:first_page,last_page"}

C2_Witness ==
  /\ Done /\ total_pages >= 2
  /\ first_page = total_pages /\ last_page = 1
  /\ error = "ValueError:first_page,last_page"

\* ------------------------------------------------------------------------
\* C3: no WORD that descends from a TABLE (TABLE->CELL->WORD or
\* TABLE->CELL->LINE->WORD) is rendered inside an ocr_block.
\* ------------------------------------------------------------------------
CellsOfTables ==
  {c \in DOMAIN Blocks :
     /\ Blocks[c].BlockType = "CELL"
     /\ \E t \in DOMAIN Blocks : /\ Blocks[t].BlockType = "TABLE"
                                 /\ Blocks[c].Id \in SeqRange(ChildIds(Blocks[t]))}
TableOwnedWords ==
  {w \in DOMAIN Blocks :
     /\ Blocks[w].BlockType = "WORD"
     /\ \E c \in CellsOfTables :
          \/ Blocks[w].Id \in SeqRange(ChildIds(Blocks[c]))
          \/ \E l \in DOMAIN Blocks :
               /\ Blocks[l].BlockType = "LINE"
               /\ Blocks[l].Id \in SeqRange(ChildIds(Blocks[c]))
               /\ Blocks[w].Id \in SeqRange(ChildIds(Blocks[l]))}

C3_TableWordsNotInBlocks ==
  Succeeded =>
    \A e \in AllItems(output.pages) :
       IsBlock(e) => WordIdsOf(e) \cap {Blocks[w].Id : w \in TableOwnedWords} = {}

\* ------------------------------------------------------------------------
\* C4 as stated: two free lines whose boxes do not vertically overlap are
\* never in the same ocr_block.
\* ------------------------------------------------------------------------
C4_NonOverlappingNeverGrouped ==
  Succeeded =>
    \A e \in AllItems(output.pages) :
       IsBlock(e) =>
         \A a, b \in SeqRange(LineIdsOf(e)) :
            VOverlap(BlockOf(a).BoundingBox, BlockOf(b).BoundingBox)

\* C4 as amended: two free lines whose boxes do not vertically overlap are
\* never consecutive lines of the same ocr_block (every line of a block
\* overlaps the line emitted just before it).
C4_ConsecutiveLinesOverlap ==
  Succeeded =>
    \A e \in AllItems(output.pages) :
       IsBlock(e) =>
         \A k \in 1..(Len(e.children) - 1) :
            VOverlap(BlockOf(e.children[k].id).BoundingBox,
                     BlockOf(e.children[k + 1].id).BoundingBox)

\* A block of three lines whose first and last line do not overlap
C4_Witness ==
  /\ Succeeded
  /\ \E e \in AllItems(output.pages) :
       /\ IsBlock(e) /\ Len(e.children) = 3
       /\ ~VOverlap(BlockOf(e.children[1].id).BoundingBox,
                    BlockOf(e.children[3].id).BoundingBox)

\* ------------------------------------------------------------------------
\* C5 as stated: two free lines whose boxes vertically overlap, with no
\* table between them in the emitted order, are in the same ocr_block.
\* ------------------------------------------------------------------------
NoTableBetween(page, i, j) ==
  \A k \in (i + 1)..(j - 1) : ~IsTable(Items(page)[k])

C5_OverlappingAlwaysGrouped ==
  Succeeded =>
    \A p \in DOMAIN output.pages :
       \A i, j \in DOMAIN Items(output.pages[p]) :
          (/\ i < j
           /\ IsBlock(Items(output.pages[p])[i]) /\ IsBlock(Items(output.pages[p])[j])
           /\ NoTableBetween(output.pages[p], i, j))
          => \A a \in SeqRange(LineIdsOf(Items(output.pages[p])[i])),
                b \in SeqRange(LineIdsOf(Items(output.pages[p])[j])) :
                ~VOverlap(BlockOf(a).BoundingBox, BlockOf(b).BoundingBox)

\* C5 as amended: two free lines whose boxes vertically overlap and that
\* are adjacent in the emitted order (no table and no other free line
\* between them) are in the same ocr_block: the last line of a block never
\* overlaps the first line of the block emitted right after it.
C5_AdjacentOverlappingGrouped ==
  Succeeded =>
    \A p \in DOMAIN output.pages :
       \A i \in 1..(Len(Items(output.pages[p])) - 1) :
          LET e1 == Items(output.pages[p])[i]
              e2 == Items(output.pages[p])[i + 1]
          IN (IsBlock(e1) /\ IsBlock(e2)) =>
               ~VOverlap(BlockOf(e1.children[Len(e1.children)].id).BoundingBox,
                         BlockOf(e2.children[1].id).BoundingBox)

\* Two overlapping adjacent lines share a block and a third line that
\* overlaps the first of them starts the next block
C5_Witness ==
  /\ Succeeded
  /\ \E p \in DOMAIN output.pages :
       \E i \in 1..(Len(Items(output.pages[p])) - 1) :
          LET e1 == Items(output.pages[p])[i]
              e2 == Items(output.pages[p])[i + 1]
          IN /\ IsBlock(e1) /\ IsBlock(e2) /\ Len(e1.children) = 2
             /\ VOverlap(BlockOf(e1.children[1].id).BoundingBox,
                         BlockOf(e1.children[2].id).BoundingBox)
             /\ VOverlap(BlockOf(e1.children[1].id).BoundingBox,
                         BlockOf(e2.children[1].id).BoundingBox)


\* ------------------------------------------------------------------------
\* C6: in a sub-range conversion nothing of a block whose Page lies
\* outside [first, last] is rendered: every table, line and word element
\* that renders a block renders a block of a page in the range.
\* ------------------------------------------------------------------------
OutputIds(pages) ==
  UNION {{e.id : e \in {x \in {i} : IsTable(x)}}
         \cup SeqRange(LineIdsOf(i)) \cup WordIdsOf(i) : i \in AllItems(pages)}

C6_OnlyBlocksInRange ==
  (Succeeded /\ path = "range") =>
    \A id \in OutputIds(output.pages) :
       FindById(Blocks, id) # 0 => BlockOf(id).Page \in first..last

\* ------------------------------------------------------------------------
\* C7: the conversion never raises because a block lacks Confidence, or a
\* WORD lacks TextType or Text.
\* ------------------------------------------------------------------------
C7_OptionalFieldsNeverRaise ==
  error \notin {KeyError("Confidence"), KeyError("Text"), KeyError("TextType")}

\* ------------------------------------------------------------------------
\* C8: a child id that matches no block is skipped: the call returns or
\* raises what it does for the same document with that id removed from
\* the relationship.
\* ------------------------------------------------------------------------
\* The places <<block, relationship, position>> that hold such an id
DanglingPlaces ==
  {pl \in (DOMAIN Blocks) \X (1..2) \X (1..4) :
     /\ pl[2] \in DOMAIN Blocks[pl[1]].Relationships
     /\ pl[3] \in DOMAIN Blocks[pl[1]].Relationships[pl[2]].Ids
     /\ \A k \in DOMAIN Blocks : Blocks[k].Id # Blocks[pl[1]].Relationships[pl[2]].Ids[pl[3]]}

RemoveAt(seq, k) == SubSeq(seq, 1, k - 1) \o SubSeq(seq, k + 1, Len(seq))

WithoutPlace(pl) ==
  [textract_result EXCEPT !.Blocks[pl[1]].Relationships[pl[2]].Ids = RemoveAt(@, pl[3])]

C8_DanglingIdSkipped ==
  Done =>
    \A pl \in DanglingPlaces :
       Convert(WithoutPlace(pl), source_file, first_page, last_page, dimensions,
               pdf_reader)
         = [error |-> error, output |-> output]

\* A line and a table cell with such an id have been rendered
C8_Witness ==
  /\ Succeeded
  /\ \E pl \in DanglingPlaces : Blocks[pl[1]].BlockType = "LINE"
  /\ \E pl \in DanglingPlaces : Blocks[pl[1]].BlockType = "CELL"
  /\ \E pl \in DanglingPlaces : Blocks[pl[1]].BlockType = "TABLE"
  /\ \E pl \in DanglingPlaces : Blocks[pl[1]].BlockType = "PAGE"
  /\ \E e \in AllItems(output.pages) : IsBlock(e) /\ WordIdsOf(e) # {}
  /\ \E e \in AllItems(output.pages) : IsTable(e) /\ WordIdsOf(e) # {}

\* ------------------------------------------------------------------------
\* C9: the dimensions of every page are chosen by the fixed priority: the
\* override; else the size of the image; else the media box of the page
\* (truncated to integers) when the source reads as a PDF that has the
\* page; else 1000x1000.
\* ------------------------------------------------------------------------
C9_DimensionPriority ==
  \A q \in DOMAIN page_dimensions :
     page_dimensions[q] =
       IF dimensions.given THEN dimensions.value
       ELSE IF source_file.kind = "image"
       THEN [width |-> source_file.width, height |-> source_file.height]
       ELSE IF /\ source_file.kind = "pdf" /\ pdf_reader
               /\ q \in 1..Len(source_file.pages) /\ source_file.pages[q].ok
       THEN [width |-> source_file.pages[q].w2 \div 2,
             height |-> source_file.pages[q].h2 \div 2]
       ELSE [width |-> 1000, height |-> 1000]

\* A PDF shorter than the document: the first page takes its media box,
\* the last page falls back to the default
C9_Witness ==
  /\ Succeeded /\ ~dimensions.given /\ source_file.kind = "pdf"
  /\ 1 \in DOMAIN page_dimensions /\ total_pages \in DOMAIN page_dimensions
  /\ page_dimensions[1] # DefaultDims
  /\ page_dimensions[total_pages] = DefaultDims

FloorPixel(n, dimension) == (n * dimension) \div Grid

\* The box of the block an element renders; the line made for the words
\* of the cell c has the id c_line and the box of c.
ElementBox(id) ==
  IF FindById(Blocks, id) # 0 THEN BlockOf(id).BoundingBox
  ELSE Blocks[CHOOSE c \in DOMAIN Blocks : Blocks[c].Id \o "_line" = id].BoundingBox

\* The table, line and word elements of a page
PageElements(page) ==
  LET items == {Items(page)[k] : k \in DOMAIN Items(page)}
      lines == UNION {{i.children[k] : k \in DOMAIN i.children} : i \in items}
      words == UNION {{l.children[k] : k \in DOMAIN l.children} : l \in lines}
  IN {i \in items : IsTable(i)} \cup lines \cup words

C11_PixelBoxIsFloor ==
  Succeeded =>
    \A p \in DOMAIN output.pages :
       \A e \in PageElements(output.pages[p]) :
          LET b == ElementBox(e.id)
              w == output.pages[p].bbox[3]
              h == output.pages[p].bbox[4]
          IN /\ e.bbox = <<FloorPixel(b.Left, w), FloorPixel(b.Top, h),
                           FloorPixel(b.Left + b.Width, w),
                           FloorPixel(b.Top + b.Height, h)>>
             /\ e.bbox[3] >= e.bbox[1] /\ e.bbox[4] >= e.bbox[2]

\* ------------------------------------------------------------------------
\* C12: a CELL of a rendered table that has neither LINE nor WORD children
\* is still emitted, as an element of its table with empty content.
\* ------------------------------------------------------------------------
\* The CELL blocks a TABLE block lists as children
CellsOf(table) ==
  {c \in DOMAIN Blocks : /\ Blocks[c].BlockType = "CELL"
                         /\ Blocks[c].Id \in SeqRange(ChildIds(table))}

\* The children of a block that are blocks of the type
ChildrenOfType(block, type) ==
  {id \in SeqRange(ChildIds(block)) :
     FindById(Blocks, id) # 0 /\ BlockOf(id).BlockType = type}

EmptyCell(c) ==
  ChildrenOfType(Blocks[c], "LINE") = {} /\ ChildrenOfType(Blocks[c], "WORD") = {}

C12_EmptyCellEmitted ==
  Succeeded =>
    \A e \in AllItems(output.pages) :
       IsTable(e) =>
         \A c \in CellsOf(BlockOf(e.id)) :
            EmptyCell(c) =>
              \E k \in DOMAIN e.children :
                 e.children[k].id \in {Blocks[c].Id, Blocks[c].Id \o "_line"}

\* ------------------------------------------------------------------------
\* C13: inside a rendered table the content of the cells is emitted in
\* ascending (RowIndex, ColumnIndex) order, whatever the order of the cell
\* ids in the TABLE's CHILD relationship; a page whose only content is
\* tables has one ocr_table per table and no ocr_block.
\* ------------------------------------------------------------------------
\* The cells of a table that own a line element of the table: the line of
\* the cell's words, or a LINE child of the cell
OwnerCells(table, line_id) ==
  {c \in CellsOf(table) :
     \/ Blocks[c].Id \o "_line" = line_id
     \/ line_id \in ChildrenOfType(Blocks[c], "LINE")}

RowColumnLeq(c1, c2) ==
  \/ Blocks[c1].RowIndex < Blocks[c2].RowIndex
  \/ /\ Blocks[c1].RowIndex = Blocks[c2].RowIndex
     /\ Blocks[c1].ColumnIndex <= Blocks[c2].ColumnIndex

BlocksOnPage(type, q) ==
  {k \in DOMAIN Blocks : Blocks[k].BlockType = type /\ Blocks[k].Page = q}

\* Page q has a table, and every LINE block of the page is the child of a
\* cell of a table of the page
OnlyTables(q) ==
  /\ BlocksOnPage("TABLE", q) # {}
  /\ \A l \in BlocksOnPage("LINE", q) :
        \E t \in BlocksOnPage("TABLE", q) :
           \E c \in CellsOf(Blocks[t]) :
              Blocks[l].Id \in SeqRange(ChildIds(Blocks[c]))

C13_CellsInRowColumnOrder ==
  Succeeded =>
    /\ \A e \in AllItems(output.pages) :
          IsTable(e) =>
            /\ \A k \in DOMAIN e.children :
                  OwnerCells(BlockOf(e.id), e.children[k].id) # {}
            /\ \A k \in 1..(Len(e.children) - 1) :
                  \A c1 \in OwnerCells(BlockOf(e.id), e.children[k].id),
                     c2 \in OwnerCells(BlockOf(e.id), e.children[k + 1].id) :
                     RowColumnLeq(c1, c2)
    /\ \A p \in DOMAIN output.pages :
          LET q == output.pages[p].ppageno + 1
              items == Items(output.pages[p])
          IN OnlyTables(q) =>
               /\ \A k \in DOMAIN items : IsTable(items[k])
               /\ \A t \in BlocksOnPage("TABLE", q) :
                     Cardinality({k \in DOMAIN items : items[k].id = Blocks[t].Id}) = 1
               /\ Len(items) = Cardinality(BlocksOnPage("TABLE", q))

\* A page with two tables and nothing else; the 2x2 table lists its last
\* cell first and its four cells are emitted
C13_Witness ==
  /\ Succeeded
  /\ \E p \in DOMAIN output.pages :
       /\ OnlyTables(output.pages[p].ppageno + 1)
       /\ Len(Items(output.pages[p])) = 2
       /\ \E k \in DOMAIN Items(output.pages[p]) :
            LET e == Items(output.pages[p])[k]
            IN /\ Len(e.children) = 4
               /\ ChildIds(BlockOf(e.id))[1] = "c22"
               /\ e.children[1].id \in {"c11_line", "l11"}

\* ------------------------------------------------------------------------
\* C14: the word elements of every rendered line appear in the order of
\* the ids in the LINE block's CHILD relationship, each with the text of
\* its own WORD block, whatever the positions of the words in Blocks.
\* ------------------------------------------------------------------------
\* The ocr_line elements of the markup
LineElements(pages) ==
  UNION {{i.children[k] : k \in DOMAIN i.children} : i \in AllItems(pages)}

\* The first position of an id in a list of ids
FirstPos(ids, id) ==
  CHOOSE k \in DOMAIN ids : ids[k] = id /\ \A j \in 1..(k - 1) : ids[j] # id

IsChild(rel) == rel.Type = "CHILD"

OnlyChildRelationships ==
  [textract_result EXCEPT !.Blocks =
     [k \in DOMAIN Blocks |->
        [Blocks[k] EXCEPT !.Relationships = SelectSeq(@, IsChild)]]]

C15_OnlyChildInterpreted ==
  Done =>
    Convert(OnlyChildRelationships, source_file, first_page, last_page,
            dimensions, pdf_reader)
      = [error |-> error, output |-> output]

\* ------------------------------------------------------------------------
\* C16 as stated: the validation error names every offending bound:
\* first_page when first is outside [1, totalPages], last_page when last
\* is outside (both when both are), and both bounds when first > last.
\* ------------------------------------------------------------------------
\* The bounds an error message names
NamedBounds(e) ==
  IF e = "ValueError:first_page" THEN {"first_page"}
  ELSE IF e = "ValueError:last_page" THEN {"last_page"}
  ELSE IF e = "ValueError:first_page,last_page" THEN {"first_page", "last_page"}
  ELSE {}

OffendingBounds ==
  (IF first \notin 1..total_pages THEN {"first_page"} ELSE {})
  \cup (IF last \notin 1..total_pages THEN {"last_page"} ELSE {})
  \cup (IF first > last THEN {"first_page", "last_page"} ELSE {})

C16_EveryOffendingBoundNamed ==
  (Done /\ RangeInvalid) => NamedBounds(error) = OffendingBounds

\* C16 as amended: the validation error names one offence, the first in
\* the order of the tests: first_page alone when first is outside
\* [1, totalPages]; else last_page alone when last is outside; else both
\* bounds, when first > last.
C16_FirstOffenceNamed ==
  (Done /\ RangeInvalid) =>
    NamedBounds(error) =
      IF first \notin 1..total_pages THEN {"first_page"}
      ELSE IF last \notin 1..total_pages THEN {"last_page"}
      ELSE {"first_page", "last_page"}

\* Both bounds are outside the document and the error names first_page
C16_Witness ==
  /\ Done
  /\ first \notin 1..total_pages /\ last \notin 1..total_pages
  /\ NamedBounds(error) = {"first_page"}

\* ------------------------------------------------------------------------
\* C17: when totalPages = 1 every call that passes the validation takes
\* the single-page path: the markup has exactly one page container
\* (page_1, ppageno 0) that holds the document's lines and tables, and the
\* call returns or raises the same whether first_page and last_page are
\* omitted or given.
\* ------------------------------------------------------------------------
BlockIdsOfType(type) ==
  {Blocks[k].Id : k \in {j \in DOMAIN Blocks : Blocks[j].BlockType = type}}

C17_OnePageDocument ==
  total_pages = 1 =>
    /\ path \in {"none", "single"}
    /\ (pc # "start" /\ call = 1) => (path = "single" \/ RangeInvalid)
    /\ Succeeded =>
         /\ Len(output.pages) = 1
         /\ output.pages[1].id = "page_1" /\ output.pages[1].ppageno = 0
         /\ BlockIdsOfType("LINE")
              \subseteq {el.id : el \in LineElements(output.pages)}
         /\ BlockIdsOfType("TABLE")
              = {i.id : i \in {x \in AllItems(output.pages) : IsTable(x)}}
    /\ (Done /\ ~RangeInvalid) =>
         Convert(textract_result, source_file, None, None, dimensions, pdf_reader)
           = [error |-> error, output |-> output]

\* A one-page document converted with first_page = last_page = 1: a block
\* of lines and a table are in the page, and the PAGE block is listed last
C17_Witness ==
  /\ Succeeded /\ total_pages = 1 /\ first_page = 1 /\ last_page = 1
  /\ \E k \in DOMAIN Blocks : k = Len(Blocks) /\ Blocks[k].BlockType = "PAGE"
  /\ \E e \in AllItems(output.pages) : IsBlock(e)
  /\ \E e \in AllItems(output.pages) : IsTable(e)

\* ------------------------------------------------------------------------
\* C18: walking the sorted content of a page, a free line is appended to
\* the open ocr_block if and only if its box overlaps that of the free
\* line just before it (top1 < bottom2 and bottom1 > top2; boxes that
\* touch do not overlap); otherwise the block is closed and the line
\* starts a new block.
\* ------------------------------------------------------------------------
\* The tables and free lines of a page in the order they are emitted; item
\* is the position of the ocr_block or ocr_table element in the page
EmittedItems(page) ==
  Flatten([k \in DOMAIN Items(page) |->
     IF IsTable(Items(page)[k])
     THEN <<[type |-> "table", id |-> Items(page)[k].id, item |-> k]>>
     ELSE [j \in DOMAIN Items(page)[k].children |->
             [type |-> "line", id |-> Items(page)[k].children[j].id, item |-> k]]])

TopOf(id) == BlockOf(id).BoundingBox.Top
BottomOf(id) == BlockOf(id).BoundingBox.Top + BlockOf(id).BoundingBox.Height

C18_AppendedIffOverlapsPrevious ==
  Succeeded =>
    \A p \in DOMAIN output.pages :
       LET seq == EmittedItems(output.pages[p])
       IN \A k \in 1..(Len(seq) - 1) :
            (seq[k].type = "line" /\ seq[k + 1].type = "line") =>
              ((seq[k].item = seq[k + 1].item)
                 <=> (/\ TopOf(seq[k].id) < BottomOf(seq[k + 1].id)
                      /\ BottomOf(seq[k].id) > TopOf(seq[k + 1].id)))

\* Three free lines in a row: the second overlaps the first and shares
\* its block, the third touches the bottom of the second and starts the
\* next block
C18_Witness ==
  /\ Succeeded
  /\ \E p \in DOMAIN output.pages :
       LET seq == EmittedItems(output.pages[p])
       IN /\ Len(seq) = 3
          /\ \A k \in 1..3 : seq[k].type = "line"
          /\ seq[1].item = seq[2].item /\ seq[2].item # seq[3].item
          /\ BottomOf(seq[2].id) = TopOf(seq[3].id)

\* ------------------------------------------------------------------------
\* C19: a table closes the open block: the pending block is emitted before
\* the table, the table is emitted as a unit of its own, and the first
\* free line after it starts a new block even if it overlaps the last
\* line before the table; no ocr_block has lines on both sides of a table.
\* ------------------------------------------------------------------------
C19_TableClosesBlock ==
  Succeeded =>
    \A p \in DOMAIN output.pages :
       LET items == Items(output.pages[p])
       IN \A i, j \in DOMAIN items :
            (IsBlock(items[i]) /\ IsTable(items[j])) =>
              /\ i < j => \A a \in SeqRange(LineIdsOf(items[i])) :
                             TopOf(a) <= TopOf(items[j].id)
              /\ i > j => \A a \in SeqRange(LineIdsOf(items[i])) :
                             TopOf(a) >= TopOf(items[j].id)

\* A block, a table and a block: the first line after the table overlaps
\* the last line before it
C19_Witness ==
  /\ Succeeded
  /\ \E p \in DOMAIN output.pages :
       LET items == Items(output.pages[p])
       IN \E i \in 1..(Len(items) - 2) :
            /\ IsBlock(items[i]) /\ IsTable(items[i + 1]) /\ IsBlock(items[i + 2])
            /\ VOverlap(BlockOf(items[i].children[Len(items[i].children)].id).BoundingBox,
                        BlockOf(items[i + 2].children[1].id).BoundingBox)

\* ------------------------------------------------------------------------
\* C20 as stated: the tables and free lines of a page are emitted in
\* ascending order of BoundingBox.Top, and items of equal Top in the order
\* of their blocks in the document, tables and lines alike.
\* ------------------------------------------------------------------------
C20_TopThenDocumentOrder ==
  Succeeded =>
    \A p \in DOMAIN output.pages :
       LET seq == EmittedItems(output.pages[p])
       IN \A k \in 1..(Len(seq) - 1) :
            \/ TopOf(seq[k].id) < TopOf(seq[k + 1].id)
            \/ /\ TopOf(seq[k].id) = TopOf(seq[k + 1].id)
               /\ FindById(Blocks, seq[k].id) < FindById(Blocks, seq[k + 1].id)

\* The ids of the free lines of page q in the order in which they enter
\* the page's line dictionary: a PAGE block enters the LINE children it
\* lists that no table owns, a LINE block enters itself
RegisteredLines(q) ==
  LET Listed(id) == /\ FindById(Blocks, id) # 0
                    /\ BlockOf(id).BlockType = "LINE"
                    /\ id \notin table_ids.table_line_ids
  IN Flatten([k \in DOMAIN Blocks |->
       IF Blocks[k].BlockType = "PAGE" /\ path # "single" /\ Blocks[k].Page = q
       THEN SelectSeq(ChildIds(Blocks[k]), Listed)
       ELSE IF Blocks[k].BlockType = "LINE" /\ (path = "single" \/ Blocks[k].Page = q)
       THEN <<Blocks[k].Id>>
       ELSE <<>>])

\* The place of an item among the items of equal Top
TieOrder(x, q) ==
  IF x.type = "table" THEN FindById(Blocks, x.id)
  ELSE Len(Blocks) + FirstPos(RegisteredLines(q), x.id)

\* C20 as amended: the items are emitted in ascending order of Top; among
\* items of equal Top the tables come first, in the order of their TABLE
\* blocks, and then the free lines, in the order in which their ids
\* entered the page's line dictionary.
C20_TopThenTablesThenLines ==
  Succeeded =>
    \A p \in DOMAIN output.pages :
       LET seq == EmittedItems(output.pages[p])
           q == output.pages[p].ppageno + 1
       IN \A k \in 1..(Len(seq) - 1) :
            \/ TopOf(seq[k].id) < TopOf(seq[k + 1].id)
            \/ /\ TopOf(seq[k].id) = TopOf(seq[k + 1].id)
               /\ TieOrder(seq[k], q) < TieOrder(seq[k + 1], q)

\* A table is emitted before a line of the same Top whose block precedes
\* the TABLE block, and two lines of the same Top are emitted in the order
\* of the PAGE block's list, against the order of their LINE blocks
C20_Witness ==
  /\ Succeeded
  /\ \E p \in DOMAIN output.pages :
       LET seq == EmittedItems(output.pages[p])
       IN /\ \E k \in 1..(Len(seq) - 1) :
               /\ seq[k].type = "table" /\ seq[k + 1].type = "line"
               /\ TopOf(seq[k].id) = TopOf(seq[k + 1].id)
               /\ FindById(Blocks, seq[k].id) > FindById(Blocks, seq[k + 1].id)
          /\ \E k \in 1..(Len(seq) - 1) :
               /\ seq[k].type = "line" /\ seq[k + 1].type = "line"
               /\ TopOf(seq[k].id) = TopOf(seq[k + 1].id)
               /\ FindById(Blocks, seq[k].id) > FindById(Blocks, seq[k + 1].id)

\* ------------------------------------------------------------------------
\* C21: every LINE block of a rendered page is rendered exactly once: in
\* the ocr_table of the table of the page whose cell lists it as a child,
\* and otherwise in exactly one ocr_block; never in both, never omitted.
\* ------------------------------------------------------------------------
\* The places <<item, line>> of a page at which a line id is rendered
\* inside an element of the class
PlacesOf(page, class, id) ==
  {pl \in UNION {{<<k, j>> : j \in DOMAIN Items(page)[k].children} :
                   k \in DOMAIN Items(page)} :
     /\ Items(page)[pl[1]].class = class
     /\ Items(page)[pl[1]].children[pl[2]].id = id}

\* The tables of page q with a cell that lists the line as a child
OwningTables(q, id) ==
  {t \in BlocksOnPage("TABLE", q) :
     \E c \in CellsOf(Blocks[t]) : id \in SeqRange(ChildIds(Blocks[c]))}

C21_LineRenderedExactlyOnce ==
  Succeeded =>
    \A p \in DOMAIN output.pages :
       LET page == output.pages[p]
           q == page.ppageno + 1
       IN \A l \in BlocksOnPage("LINE", q) :
             LET id == Blocks[l].Id
                 in_tables == PlacesOf(page, "ocr_table", id)
                 in_blocks == PlacesOf(page, "ocr_block", id)
             IN IF OwningTables(q, id) # {}
                THEN /\ in_blocks = {}
                     /\ Cardinality(in_tables) = 1
                     /\ \A pl \in in_tables :
                           Items(page)[pl[1]].id
                             \in {Blocks[t].Id : t \in OwningTables(q, id)}
                ELSE /\ in_tables = {}
                     /\ Cardinality(in_blocks) = 1

\* ------------------------------------------------------------------------
\* C22: the box of every emitted ocr_block is the union of the boxes of its
\* member lines (least Left, least Top, greatest Left + Width, greatest
\* Top + Height, then scaled to pixels), so it contains the pixel box of
\* each member line.
\* ------------------------------------------------------------------------
SetMin(S) == CHOOSE x \in S : \A y \in S : x <= y
SetMax(S) == CHOOSE x \in S : \A y \in S : x >= y

\* The boxes of the LINE blocks rendered in an ocr_block
MemberBoxes(e) == {BlockOf(e.children[k].id).BoundingBox : k \in DOMAIN e.children}

Contains(outer, inner) ==
  /\ outer[1] <= inner[1] /\ outer[2] <= inner[2]
  /\ outer[3] >= inner[3] /\ outer[4] >= inner[4]

C22_BlockBoxIsUnion ==
  Succeeded =>
    \A p \in DOMAIN output.pages :
       \A k \in DOMAIN Items(output.pages[p]) :
          LET e == Items(output.pages[p])[k]
              w == output.pages[p].bbox[3]
              h == output.pages[p].bbox[4]
          IN IsBlock(e) =>
               /\ e.bbox = <<ToPixel(SetMin({b.Left : b \in MemberBoxes(e)}), w),
                             ToPixel(SetMin({b.Top : b \in MemberBoxes(e)}), h),
                             ToPixel(SetMax({b.Left + b.Width : b \in MemberBoxes(e)}), w),
                             ToPixel(SetMax({b.Top + b.Height : b \in MemberBoxes(e)}), h)>>
               /\ \A j \in DOMAIN e.children : Contains(e.bbox, e.children[j].bbox)

\* A block of several lines whose box is the box of none of them: one line
\* gives its left edge, another reaches further right
C22_Witness ==
  /\ Succeeded
  /\ \E e \in AllItems(output.pages) :
       /\ IsBlock(e)
       /\ \E i, j \in DOMAIN e.children :
            /\ e.bbox[1] < e.children[i].bbox[1]
            /\ e.bbox[3] > e.children[j].bbox[3]
            /\ e.bbox[2] < e.children[j].bbox[2]
       /\ \A j \in DOMAIN e.children : e.bbox # e.children[j].bbox

\* ------------------------------------------------------------------------
\* C23: every cell record built for a table holds a list of owned line ids
\* or a list of inlined words, never both non-empty, and the rendered table
\* has the content of whichever of the two the cell holds.
\* ------------------------------------------------------------------------
\* The cell records of result_data, each with its page and table id
CellRecords ==
  UNION {UNION {{[page |-> q, table |-> result_data[q].tables[t].k,
                  id |-> result_data[q].tables[t].v.Cells[c].k,
                  rec |-> result_data[q].tables[t].v.Cells[c].v] :
                    c \in DOMAIN result_data[q].tables[t].v.Cells} :
                 t \in DOMAIN result_data[q].tables} :
           q \in DOMAIN result_data}

C23_LinesOrWordsNeverBoth ==
  \A cr \in CellRecords : cr.rec.LineIds = <<>> \/ cr.rec.Words = <<>>

C23_RepresentationRendered ==
    Succeeded =>
         \A p \in DOMAIN output.pages :
            \A e \in AllItems(<<output.pages[p]>>) :
               IsTable(e) =>
                 \A cr \in CellRecords :
                    (cr.page = output.pages[p].ppageno + 1 /\ cr.table = e.id) =>
                      /\ \A k \in DOMAIN cr.rec.Words :
                            cr.rec.Words[k].Id \in WordIdsOf(e)
                      /\ \A k \in DOMAIN cr.rec.LineIds :
                            DictHas(result_data[cr.page].lines, cr.rec.LineIds[k])
                              => cr.rec.LineIds[k] \in SeqRange(LineIdsOf(e))

C23_CellLinesOrWords ==
  /\ C23_LinesOrWordsNeverBoth
  /\ C23_RepresentationRendered

\* ------------------------------------------------------------------------
\* C24: on the full multi-page path and on the sub-range path the result
\* does not depend on where a PAGE block sits in Blocks relative to the
\* LINE and TABLE blocks of its page: a PAGE block that follows its page's
\* lines or tables raises no error and leaves every rendered line and
\* table as it is when the PAGE blocks come first.
\* ------------------------------------------------------------------------
IsPageBlock(b) == b.BlockType = "PAGE"
IsOtherBlock(b) == b.BlockType # "PAGE"

\* The document with its PAGE blocks moved in front of all other blocks
PagesFirst(result) ==
  [result EXCEPT !.Blocks = SelectSeq(@, IsPageBlock) \o SelectSeq(@, IsOtherBlock)]

\* A PAGE block is listed after a LINE or TABLE block of its page
PageFollowsContent ==
  \E k \in DOMAIN Blocks, j \in DOMAIN Blocks :
     /\ j < k
     /\ Blocks[k].BlockType = "PAGE"
     /\ Blocks[j].BlockType \in {"LINE", "TABLE"}
     /\ Blocks[j].Page = Blocks[k].Page

C24_PagePositionIrrelevant ==
  (Done /\ path \in {"multi", "range"} /\ PageFollowsContent) =>
    LET r == Convert(PagesFirst(textract_result), source_file, first_page,
                     last_page, dimensions, pdf_reader)
    IN r.error = NoError => (error = NoError /\ output = r.output)

\* ------------------------------------------------------------------------
\* C25: for a multi-page document and a valid sub-range, the ocr_page
\* container the sub-range conversion emits for a page is identical to the
\* container the conversion of the whole document with the same dimensions
\* emits for that page.
\* ------------------------------------------------------------------------
\* The conversion of the whole document with the arguments of the call
FullConversion ==
  Convert(textract_result, source_file, None, None, dimensions, pdf_reader)

C25_RangeAgreesWithFull ==
  (Succeeded /\ path = "range") =>
    /\ FullConversion.error = NoError
    /\ \A p \in DOMAIN output.pages :
          \E k \in DOMAIN FullConversion.output.pages :
             FullConversion.output.pages[k] = output.pages[p]

\* ------------------------------------------------------------------------
\* C26: every WORD block that is a direct child of a CELL of a rendered
\* table is an ocrx_word element inside the table's ocr_table element, also
\* when the cell has LINE children as well.
\* ------------------------------------------------------------------------
C26_CellWordsRendered ==
  Succeeded =>
    \A e \in AllItems(output.pages) :
       IsTable(e) =>
         \A c \in CellsOf(BlockOf(e.id)) :
            \A w \in ChildrenOfType(Blocks[c], "WORD") : w \in WordIdsOf(e)

\* ------------------------------------------------------------------------
\* C27: on every page the ocr_block elements have the ids block_1_p,
\* block_2_p, ... numbered consecutively from 1 in emission order, without
\* gap or repeat, and every ocr_block holds at least one line, also around
\* tables; a page without free lines has no ocr_block.
\* ------------------------------------------------------------------------
\* The ocr_block elements of a page in emission order
BlocksOf(page) == SelectSeq(Items(page), IsBlock)

\* The LINE blocks of page q that _add_page_content takes as free lines
FreeLines(q) ==
  {l \in BlocksOnPage("LINE", q) : OwningTables(q, Blocks[l].Id) = {}}

C27_BlocksNumberedAndNonEmpty ==
  Succeeded =>
    \A p \in DOMAIN output.pages :
       LET page == output.pages[p]
           q == page.ppageno + 1
       IN /\ \A k \in DOMAIN BlocksOf(page) :
                /\ BlocksOf(page)[k].id = "block_" \o ToString(k) \o "_" \o ToString(q)
                /\ Len(BlocksOf(page)[k].children) >= 1
          /\ FreeLines(q) = {} => BlocksOf(page) = <<>>

\* A page with a block, a table after it and a second block after the
\* table: the table closes block_1 and the lines after it are block_2
C27_Witness ==
  /\ Succeeded
  /\ \E p \in DOMAIN output.pages :
       LET items == Items(output.pages[p])
       IN \E i, j, k \in DOMAIN items :
             /\ i < j /\ j < k
             /\ IsBlock(items[i]) /\ IsTable(items[j]) /\ IsBlock(items[k])
             /\ items[i].id = "block_1_1" /\ items[k].id = "block_2_1"

====
